---- MODULE Spec2Model ----
(***************************************************************************)
(* A model of the PHD operator tooling (tooling/phd): manifest             *)
(* application, instance and user lifecycle commands, the RBAC policy      *)
(* editor and the workflow wait.  Every command is a sequential process;   *)
(* the cluster, kubectl and the operator's answers are the environment,    *)
(* drawn nondeterministically.  Text is modelled as a sequence of          *)
(* one-character strings, so that substring tests, split and join are      *)
(* computed the way the Python code computes them.                         *)
(***************************************************************************)
EXTENDS Naturals, Sequences, FiniteSets, TLC

VARIABLES
    \* ---- KubernetesClient.apply_manifest (phd/kubernetes.py)
    documents,      \* the documents yaml.safe_load_all yields, in order
    doc_pos,        \* index of the next document the generator will yield
    am_state,       \* "running" | "returned" | "raised"
    am_exc,         \* the exception the call raised (NoExc while none)
    kubectl_calls,  \* the kubectl apply runs, in order: [doc, result]
    applied,        \* resources the cluster holds after successful applies
    \* ---- the cluster and the instances directory, as the instance
    \*      commands see them (cli/instance_create.py, cli/instance_delete.py)
    instance_dir,   \* [exists, config, application]: <instances>/<name>
    ns_exists,      \* the namespace <name> exists
    rbac_objects,   \* "none" | "partial" | "all": objects of the RBAC manifest
    controller,     \* Argo Workflows is installed
    provision_wf,   \* provisioning workflow -> it exists in the namespace
    application,    \* the ArgoCD Application exists
    deprovision_wf, \* deprovisioning workflow -> it exists in the namespace
    \* ---- create_instance
    ci_pc,          \* the step create_instance runs next, "done" or "raised"
    ci_steps,       \* the steps it has entered, in order
    ci_exc,         \* the exception type it raised ("none" while none)
    ci_created,     \* what this call created: a subset of Effects
    wait_results,   \* results of _wait_for_workflow_completion, in order
    \* ---- delete_instance
    di_pc,          \* the step delete_instance runs next, "returned" or "raised"
    di_steps,       \* the steps it has entered, in order
    di_exc,         \* the exception type it raised ("none" while none)
    di_force,       \* the force argument
    di_answer,      \* what input() returned (<<>> before it is asked)
    di_asked,       \* input() was called
    di_failures,    \* the best-effort steps that failed
    di_obs,         \* what the command observed: [get0, delete_rc, verify]
    di_cluster0,    \* the cluster and directory when the command started
    \* ---- the Argo users, as create_argo_user and delete_argo_user see them
    username,       \* the username argument
    role,           \* the role argument of create_argo_user
    argocd_cm,      \* keys of ConfigMap argocd-cm
    argocd_secret,  \* keys of Secret argocd-secret
    sso_secret,     \* keys of Secret argo-server-sso
    policy,         \* RBAC ConfigMap -> its policy.csv
    k8s_objects,    \* [kind, name] of the per-user objects in namespace argo
    u_cmd,          \* "create" | "delete" | "none": the command running
    u_pc,           \* the step it runs next, "returned" or "raised"
    u_steps,        \* the steps it has entered, in order
    u_failed,       \* the removal steps that failed
    u_exc,          \* the exception type it raised ("none" while none)
    u_force,        \* the force argument of delete_argo_user
    u_answer,       \* what input() returned (<<>> before it is asked)
    u_asked,        \* input() was called
    u_added,        \* what create_argo_user wrote
    u_cluster0,     \* the users' entries when the command started
    \* ---- the RBAC policy editors
    pe_last,        \* the last edit: [op, cm, subject, role, ok, before]
    pe_count,       \* the number of edits so far
    \* ---- _wait_for_workflow_completion
    wf_phase,       \* .status.phase of the workflow
    wf_phases,      \* the phases it has gone through
    w_pc,           \* "wait" | "get" | "returned" | "raised"
    w_elapsed,      \* seconds the blocking kubectl wait has run
    w_wait,         \* how kubectl wait ended: "none", "zero", "timeout", "error"
    w_get,          \* how kubectl get ended: "none", "zero", "error"
    w_result,       \* the value returned
    \* ---- one call of a pure function (phd/utils.py, the workflow scripts)
    fn_call,        \* [fn, args]: the function called and its arguments
    fn_result,      \* [state, value, exc]: what it returned or raised
    \* ---- the workflow scripts update_config.py, update_config_image.py
    config_file,    \* the YAML root of config.yml (Absent: no such file)
    cfg_pc,         \* "idle" | "load" | "update" | "save" | "exited"
    cfg_data,       \* the local variable data of main()
    cfg_saved,      \* the roots save_yaml wrote, in order
    \* ---- update_env_image_refs.py: patch_env
    env_dir,        \* "missing" | "file" | "dir": what the env path is
    env_files,      \* the files under env_dir, by path: [path, ext, lines]
    env_orig,       \* env_files when patch_env was called
    env_pos,        \* index in env_files of the next file to look at
    env_pc,         \* "idle" | "check" | "patch" | "exited"
    changed_paths,  \* the local list changed_paths
    \* ---- procedures that keep their whole state in one record
    kube,           \* setup_kubeconfig and ~/.kube (phd/kubeconfig.py)
    installer,      \* argo install (cli/argo_install.py)
    editors,        \* two concurrent read-modify-writes of policy.csv
    token_wait,     \* the token wait of create_argo_user
    overrides,      \* apply_image_overrides.py
    accounts        \* the users' entries as successive user commands leave them

applyVars == <<documents, doc_pos, am_state, am_exc, kubectl_calls, applied>>

clusterVars == <<instance_dir, ns_exists, rbac_objects, controller,
                 provision_wf, application, deprovision_wf>>

createVars == <<ci_pc, ci_steps, ci_exc, ci_created, wait_results>>

deleteVars == <<di_pc, di_steps, di_exc, di_force, di_answer, di_asked,
                di_failures, di_obs, di_cluster0>>

userCluster == <<argocd_cm, argocd_secret, sso_secret, policy, k8s_objects>>

userVars == <<username, role, userCluster, u_cmd, u_pc, u_steps, u_failed,
              u_exc, u_force, u_answer, u_asked, u_added, u_cluster0>>

policyVars == <<pe_last, pe_count>>

waitVars == <<wf_phase, wf_phases, w_pc, w_elapsed, w_wait, w_get, w_result>>

configVars == <<config_file, cfg_pc, cfg_data, cfg_saved>>

envVars == <<env_dir, env_files, env_orig, env_pos, env_pc, changed_paths>>

procVars == <<kube, installer, editors, token_wait, overrides, accounts>>

toolVars == <<fn_call, fn_result, configVars, envVars, procVars>>

commandVars == <<applyVars, clusterVars, createVars, deleteVars, userVars,
                 policyVars, waitVars>>

vars == <<commandVars, toolVars>>

\* What the actions of one command leave alone: the other commands' state.
ApplyFrame ==
    UNCHANGED <<clusterVars, createVars, deleteVars, userVars, policyVars,
                waitVars, toolVars>>

CreateFrame ==
    UNCHANGED <<applyVars, deleteVars, deprovision_wf, userVars, policyVars,
                waitVars, toolVars>>

DeleteFrame ==
    UNCHANGED <<applyVars, createVars, controller, userVars, policyVars,
                waitVars, toolVars>>

UserFrame ==
    UNCHANGED <<applyVars, clusterVars, createVars, deleteVars, policyVars,
                waitVars, toolVars>>

PolicyFrame ==
    UNCHANGED <<applyVars, clusterVars, createVars, deleteVars, waitVars,
                toolVars>>

WaitFrame ==
    UNCHANGED <<applyVars, clusterVars, createVars, deleteVars, userVars,
                policyVars, toolVars>>

\* A pure function reads and writes nothing of the commands' state.
CallFrame == UNCHANGED <<commandVars, configVars, envVars, procVars>>

\* The scripts run outside the cluster commands.
ScriptFrame == UNCHANGED <<commandVars, envVars, procVars>>

EnvFrame == UNCHANGED <<commandVars, configVars, procVars>>

\* What a procedure leaves alone: everything but its own record.
PureVars == <<fn_call, fn_result, configVars, envVars>>

KubeFrame ==
    UNCHANGED <<commandVars, PureVars, installer, editors, token_wait,
                overrides, accounts>>

InstallerFrame ==
    UNCHANGED <<commandVars, PureVars, kube, editors, token_wait, overrides,
                accounts>>

EditorsFrame ==
    UNCHANGED <<commandVars, PureVars, kube, installer, token_wait,
                overrides, accounts>>

TokenWaitFrame ==
    UNCHANGED <<commandVars, PureVars, kube, installer, editors, overrides,
                accounts>>

AccountsFrame ==
    UNCHANGED <<commandVars, PureVars, kube, installer, editors, token_wait,
                overrides>>

(***************************************************************************)
(* Generic helpers on sequences                                            *)
(***************************************************************************)
Range(s) == {s[i] : i \in DOMAIN s}

SeqsUpTo(S, n) == UNION {[1..k -> S] : k \in 0..n}

IsPrefix(s, t) == Len(s) <= Len(t) /\ \A i \in DOMAIN s : s[i] = t[i]

IsStrictlyIncreasing(s) == \A i, j \in DOMAIN s : i < j => s[i] < s[j]

(***************************************************************************)
(* apply_manifest: the documents of a manifest                             *)
(*   shape "empty"   : a falsy document (None, {}), dropped by filter()    *)
(*   shape "scalar"  : a truthy non-mapping document (string, list, int)   *)
(*   shape "syntax"  : the YAML stream is invalid at this document; the    *)
(*                     lazy generator raises when it reaches it            *)
(*   shape "mapping" : a dict; meta is "absent", "null" (metadata: with no *)
(*                     value) or "mapping"; kind/name "" when the key is   *)
(*                     missing                                             *)
(***************************************************************************)
MaxDocs == 3

NAMESPACE == "test-ns"

Doc(shape, meta, kind, name) ==
    [shape |-> shape, meta |-> meta, kind |-> kind, name |-> name]

DocEmpty == Doc("empty", "absent", "", "")
DocScalar == Doc("scalar", "absent", "", "")
DocSyntax == Doc("syntax", "absent", "", "")
DocNullMeta == Doc("mapping", "null", "ConfigMap", "")
DocConfigMap == Doc("mapping", "mapping", "ConfigMap", "cm1")
DocSecret == Doc("mapping", "mapping", "Secret", "s1")
DocBare == Doc("mapping", "absent", "", "")

Docs == {DocEmpty, DocScalar, DocSyntax, DocNullMeta, DocConfigMap, DocSecret,
         DocBare}

\* What one run of `kubectl apply --server-side -f -` can do.
KubectlOk == {"created", "configured", "unchanged"}
KubectlNonZero == {"already_exists", "conflict_409", "error"}
KubectlResults == KubectlOk \cup KubectlNonZero \cup {"no_kubectl"}

NoExc == [type |-> "none", tagged |-> FALSE, kind |-> "", name |-> ""]

Exc(type) == [type |-> type, tagged |-> FALSE, kind |-> "", name |-> ""]

\* doc.get("kind", "unknown") and doc.get("metadata", {}).get("name", "unknown")
resource_kind(doc) == IF doc.kind = "" THEN "unknown" ELSE doc.kind

resource_name(doc) == IF doc.name = "" THEN "unknown" ELSE doc.name

\* _apply_resource_with_kubectl: the exception it raises for a kubectl result
\* (NoExc when it returns).  check=True turns every non-zero exit into
\* CalledProcessError, which is re-raised tagged with kind and name; anything
\* else (the binary missing) is re-raised as "Unexpected error applying
\* resource", which names neither.
_apply_resource_with_kubectl_lenient(doc, res) ==
    IF res \in KubectlOk \cup {"already_exists", "conflict_409"} THEN NoExc
    ELSE IF res \in KubectlNonZero
    THEN [type |-> "KubernetesError", tagged |-> TRUE,
          kind |-> resource_kind(doc), name |-> resource_name(doc)]
    ELSE Exc("KubernetesError")

_apply_resource_with_kubectl(doc, res) ==
    IF res \in KubectlOk THEN NoExc
    ELSE IF res \in KubectlNonZero
    THEN [type |-> "KubernetesError", tagged |-> TRUE,
          kind |-> resource_kind(doc), name |-> resource_name(doc)]
    ELSE Exc("KubernetesError")

\* The exception the loop body raises before kubectl is reached (lines
\* 152-153): doc.get on a non-mapping, or item assignment on metadata None.
body_exception(doc) ==
    IF doc.shape = "scalar" THEN Exc("AttributeError")
    ELSE IF doc.meta = "null" THEN Exc("TypeError")
    ELSE NoExc

\* The resource as the cluster stores it: namespace forced to the target.
Resource(i, doc) ==
    [doc |-> i, kind |-> resource_kind(doc), name |-> resource_name(doc),
     namespace |-> NAMESPACE]

\* The state of the call after an exception `exc` left the loop body
\* (NoExc: the body completed).
after_document_continue(exc) == "running"

after_document(exc) == IF exc = NoExc THEN "running" ELSE "raised"

ApplyPark ==
    /\ documents = <<>>
    /\ doc_pos = 1
    /\ am_state = "returned"
    /\ am_exc = NoExc
    /\ kubectl_calls = <<>>
    /\ applied = <<>>

ApplyInit ==
    /\ documents \in SeqsUpTo(Docs, MaxDocs)
    /\ doc_pos = 1
    /\ am_state = "running"
    /\ am_exc = NoExc
    /\ kubectl_calls = <<>>
    /\ applied = <<>>

\* filter(lambda x: x, documents) drops a falsy document.
SkipEmptyDocument ==
    /\ am_state = "running"
    /\ doc_pos <= Len(documents)
    /\ documents[doc_pos].shape = "empty"
    /\ doc_pos' = doc_pos + 1
    /\ UNCHANGED <<documents, am_state, am_exc, kubectl_calls, applied>>
    /\ ApplyFrame

\* The generator raises yaml.YAMLError at an invalid document.
YamlError ==
    /\ am_state = "running"
    /\ doc_pos <= Len(documents)
    /\ documents[doc_pos].shape = "syntax"
    /\ am_state' = "raised"
    /\ am_exc' = Exc("YAMLError")
    /\ doc_pos' = doc_pos + 1
    /\ UNCHANGED <<documents, kubectl_calls, applied>>
    /\ ApplyFrame

\* The loop body fails before kubectl runs.
MalformedDocument ==
    /\ am_state = "running"
    /\ doc_pos <= Len(documents)
    /\ documents[doc_pos].shape \in {"scalar", "mapping"}
    /\ body_exception(documents[doc_pos]) # NoExc
    /\ am_state' = after_document(body_exception(documents[doc_pos]))
    /\ am_exc' = body_exception(documents[doc_pos])
    /\ doc_pos' = doc_pos + 1
    /\ UNCHANGED <<documents, kubectl_calls, applied>>
    /\ ApplyFrame

\* The loop body for a well-formed mapping: one kubectl apply.
ApplyDocument ==
    /\ am_state = "running"
    /\ doc_pos <= Len(documents)
    /\ documents[doc_pos].shape = "mapping"
    /\ body_exception(documents[doc_pos]) = NoExc
    /\ \E res \in KubectlResults :
        LET doc == documents[doc_pos]
            exc == _apply_resource_with_kubectl(doc, res)
        IN  /\ kubectl_calls' = Append(kubectl_calls,
                                    [doc |-> doc_pos, result |-> res])
            /\ applied' = IF res \in KubectlOk
                          THEN Append(applied, Resource(doc_pos, doc))
                          ELSE applied
            /\ am_exc' = exc
            /\ am_state' = after_document(exc)
    /\ doc_pos' = doc_pos + 1
    /\ UNCHANGED documents
    /\ ApplyFrame

\* The generator is exhausted: apply_manifest returns.
ApplyReturn ==
    /\ am_state = "running"
    /\ doc_pos > Len(documents)
    /\ am_state' = "returned"
    /\ UNCHANGED <<documents, doc_pos, am_exc, kubectl_calls, applied>>
    /\ ApplyFrame

ApplyNext ==
    \/ SkipEmptyDocument
    \/ YamlError
    \/ MalformedDocument
    \/ ApplyDocument
    \/ ApplyReturn

(***************************************************************************)
(* The cluster and the instances directory                                 *)
(***************************************************************************)
WORKFLOWS == <<"mysql", "mongodb", "storage">>

WorkflowNames == Range(WORKFLOWS)

NoDir == [exists |-> FALSE, config |-> FALSE, application |-> FALSE]

\* What cookiecutter can generate: the template decides whether config.yml
\* and application.yml are among the files.
GeneratedDirs ==
    {[exists |-> TRUE, config |-> c, application |-> a] : c, a \in BOOLEAN}

ClusterPark ==
    /\ instance_dir = NoDir
    /\ ns_exists = FALSE
    /\ rbac_objects = "none"
    /\ controller = FALSE
    /\ provision_wf = [w \in WorkflowNames |-> FALSE]
    /\ application = FALSE
    /\ deprovision_wf = [w \in WorkflowNames |-> FALSE]

(***************************************************************************)
(* create_instance (cli/instance_create.py)                                *)
(***************************************************************************)
St(step) == [step |-> step, wf |-> "-"]

WfSt(step, w) == [step |-> step, wf |-> w]

\* The steps of create_instance in the order the function body runs them.
CREATE_STEPS ==
    <<St("setup"), St("generate"), St("namespace"), St("rbac"),
      St("controller"), St("load"),
      WfSt("apply", "mysql"), WfSt("apply", "mongodb"), WfSt("apply", "storage"),
      WfSt("wait", "mysql"), WfSt("wait", "mongodb"), WfSt("wait", "storage"),
      St("check"), St("cleanup"), St("application")>>

StepAfter(st) ==
    LET i == CHOOSE k \in DOMAIN CREATE_STEPS : CREATE_STEPS[k] = st
    IN  IF i = Len(CREATE_STEPS) THEN St("done") ELSE CREATE_STEPS[i + 1]

Effects == {"dir", "namespace", "rbac", "controller", "application"}
               \cup WorkflowNames

CreatePark ==
    /\ ci_pc = St("done")
    /\ ci_steps = <<>>
    /\ ci_exc = "none"
    /\ ci_created = {}
    /\ wait_results = <<>>

\* The instance directory or the namespace may be left from an earlier run.
CreateInit ==
    /\ instance_dir \in {NoDir} \cup GeneratedDirs
    /\ ns_exists \in BOOLEAN
    /\ rbac_objects = "none"
    /\ controller \in BOOLEAN
    /\ provision_wf = [w \in WorkflowNames |-> FALSE]
    /\ application = FALSE
    /\ deprovision_wf = [w \in WorkflowNames |-> FALSE]
    /\ ci_pc = CREATE_STEPS[1]
    /\ ci_steps = <<>>
    /\ ci_exc = "none"
    /\ ci_created = {}
    /\ wait_results = <<>>

\* The step at ci_pc raised `exc`: create_instance catches nothing.
CreateRaise(exc) ==
    /\ ci_pc' = St("raised")
    /\ ci_steps' = Append(ci_steps, ci_pc)
    /\ ci_exc' = exc

\* The step at ci_pc completed.
CreateAdvance ==
    /\ ci_pc' = StepAfter(ci_pc)
    /\ ci_steps' = Append(ci_steps, ci_pc)
    /\ ci_exc' = "none"

\* get_config(), KubernetesClient(), instances_dir.mkdir (lines 407-414).
CreateSetup ==
    /\ ci_pc = St("setup")
    /\ \/ CreateAdvance
       \/ CreateRaise("ConfigurationError")
    /\ UNCHANGED <<clusterVars, ci_created, wait_results>>
    /\ CreateFrame

\* _generate_instance_config: a None template_repository fails at line 153
\* before cookiecutter runs; cookiecutter refuses an existing directory
\* (overwrite_if_exists=False) and may fail for reasons of its own.
CreateGenerate ==
    /\ ci_pc = St("generate")
    /\ \/ /\ ~instance_dir.exists
          /\ instance_dir' \in GeneratedDirs
          /\ ci_created' = ci_created \cup {"dir"}
          /\ CreateAdvance
       \/ /\ CreateRaise("Exception")
          /\ UNCHANGED <<instance_dir, ci_created>>
       \/ /\ CreateRaise("AttributeError")
          /\ UNCHANGED <<instance_dir, ci_created>>
    /\ UNCHANGED <<ns_exists, rbac_objects, controller, provision_wf,
                   application, wait_results>>
    /\ CreateFrame

\* k8s_client.create_namespace: a 409 is logged and ignored.
CreateNamespace ==
    /\ ci_pc = St("namespace")
    /\ \/ /\ ~ns_exists
          /\ ns_exists' = TRUE
          /\ ci_created' = ci_created \cup {"namespace"}
          /\ CreateAdvance
       \/ /\ ns_exists
          /\ CreateAdvance
          /\ UNCHANGED <<ns_exists, ci_created>>
       \/ /\ CreateRaise("KubernetesError")
          /\ UNCHANGED <<ns_exists, ci_created>>
    /\ UNCHANGED <<instance_dir, rbac_objects, controller, provision_wf,
                   application, wait_results>>
    /\ CreateFrame

\* _setup_instance_rbac: apply_manifest_from_url of openedx-instance-rbac.yml;
\* the fetch may fail, and the apply may fail after some of its documents.
CreateRbac ==
    /\ ci_pc = St("rbac")
    /\ \/ /\ rbac_objects' = "all"
          /\ ci_created' = ci_created \cup {"rbac"}
          /\ CreateAdvance
       \/ /\ CreateRaise("ManifestError")
          /\ UNCHANGED <<rbac_objects, ci_created>>
       \/ /\ rbac_objects' \in {"none", "partial"}
          /\ CreateRaise("KubernetesError")
          /\ UNCHANGED ci_created
    /\ UNCHANGED <<instance_dir, ns_exists, controller, provision_wf,
                   application, wait_results>>
    /\ CreateFrame

\* _ensure_argo_workflows_installed: every failure becomes KubernetesError.
CreateController ==
    /\ ci_pc = St("controller")
    /\ \/ /\ controller' = TRUE
          /\ ci_created' = IF controller THEN ci_created
                           ELSE ci_created \cup {"controller"}
          /\ CreateAdvance
       \/ /\ CreateRaise("KubernetesError")
          /\ UNCHANGED <<controller, ci_created>>
    /\ UNCHANGED <<instance_dir, ns_exists, rbac_objects, provision_wf,
                   application, wait_results>>
    /\ CreateFrame

\* Lines 441-446: config.yml must exist and is parsed.
CreateLoadConfig ==
    /\ ci_pc = St("load")
    /\ \/ /\ instance_dir.config
          /\ CreateAdvance
       \/ /\ ~instance_dir.config
          /\ CreateRaise("FileNotFoundError")
       \/ /\ instance_dir.config
          /\ CreateRaise("YAMLError")
    /\ UNCHANGED <<clusterVars, ci_created, wait_results>>
    /\ CreateFrame

\* _create_provision_workflows, first loop (lines 296-304): apply each
\* workflow manifest; a failed fetch or apply propagates at once.
CreateApplyWorkflow ==
    /\ ci_pc.step = "apply"
    /\ \/ /\ provision_wf' = [provision_wf EXCEPT ![ci_pc.wf] = TRUE]
          /\ ci_created' = ci_created \cup {ci_pc.wf}
          /\ CreateAdvance
       \/ /\ CreateRaise("ManifestError")
          /\ UNCHANGED <<provision_wf, ci_created>>
       \/ /\ CreateRaise("KubernetesError")
          /\ UNCHANGED <<provision_wf, ci_created>>
    /\ UNCHANGED <<instance_dir, ns_exists, rbac_objects, controller,
                   application, wait_results>>
    /\ CreateFrame

\* Second loop (lines 309-311): every workflow is waited on; a false result
\* only clears all_succeeded.
CreateWaitWorkflow ==
    /\ ci_pc.step = "wait"
    /\ \E r \in BOOLEAN : wait_results' = Append(wait_results, r)
    /\ CreateAdvance
    /\ UNCHANGED <<clusterVars, ci_created>>
    /\ CreateFrame

all_succeeded_ignored(results) == TRUE

\* The flag is overwritten by each wait: only the last result counts.
all_succeeded_last_wait(results) == results[Len(results)]

all_succeeded(results) == \A i \in DOMAIN results : results[i]

\* Lines 313-321: list the workflows, then raise unless all succeeded.
CreateCheckWorkflows ==
    /\ ci_pc = St("check")
    /\ IF all_succeeded(wait_results)
       THEN CreateAdvance
       ELSE CreateRaise("KubernetesError")
    /\ UNCHANGED <<clusterVars, ci_created, wait_results>>
    /\ CreateFrame

\* Lines 323-329: kubectl delete each workflow, check=False: each deletion
\* may fail without consequence.
CreateCleanupWorkflows ==
    /\ ci_pc = St("cleanup")
    /\ \E deleted \in SUBSET WorkflowNames :
          provision_wf' = [w \in WorkflowNames |->
                              provision_wf[w] /\ w \notin deleted]
    /\ CreateAdvance
    /\ UNCHANGED <<instance_dir, ns_exists, rbac_objects, controller,
                   application, ci_created, wait_results>>
    /\ CreateFrame

\* _create_argocd_application: application.yml must exist; kubectl apply
\* runs with check=True.
CreateApplication ==
    /\ ci_pc = St("application")
    /\ \/ /\ instance_dir.application
          /\ application' = TRUE
          /\ ci_created' = ci_created \cup {"application"}
          /\ CreateAdvance
       \/ /\ ~instance_dir.application
          /\ CreateRaise("FileNotFoundError")
          /\ UNCHANGED <<application, ci_created>>
       \/ /\ instance_dir.application
          /\ CreateRaise("CalledProcessError")
          /\ UNCHANGED <<application, ci_created>>
    /\ UNCHANGED <<instance_dir, ns_exists, rbac_objects, controller,
                   provision_wf, wait_results>>
    /\ CreateFrame

CreateNext ==
    \/ CreateSetup
    \/ CreateGenerate
    \/ CreateNamespace
    \/ CreateRbac
    \/ CreateController
    \/ CreateLoadConfig
    \/ CreateApplyWorkflow
    \/ CreateWaitWorkflow
    \/ CreateCheckWorkflows
    \/ CreateCleanupWorkflows
    \/ CreateApplication

(***************************************************************************)
(* Text: a Python str is a sequence of one-character strings               *)
(***************************************************************************)
UpperCase == <<"A", "B", "C", "D", "E", "F", "G", "H", "I", "J", "K", "L", "M",
               "N", "O", "P", "Q", "R", "S", "T", "U", "V", "W", "X", "Y", "Z">>

LowerCase == <<"a", "b", "c", "d", "e", "f", "g", "h", "i", "j", "k", "l", "m",
               "n", "o", "p", "q", "r", "s", "t", "u", "v", "w", "x", "y", "z">>

LowerChar(c) ==
    IF \E i \in DOMAIN UpperCase : UpperCase[i] = c
    THEN LowerCase[CHOOSE i \in DOMAIN UpperCase : UpperCase[i] = c]
    ELSE c

\* str.lower()
Lower(s) == [i \in DOMAIN s |-> LowerChar(s[i])]

Digits == {"0", "1", "2", "3", "4", "5", "6", "7", "8", "9"}

\* s.split(sep) for a one-character separator: never an empty list.
RECURSIVE Split(_, _)
Split(s, sep) ==
    IF \A i \in DOMAIN s : s[i] # sep THEN <<s>>
    ELSE LET i == CHOOSE k \in DOMAIN s :
                      s[k] = sep /\ \A j \in 1..(k - 1) : s[j] # sep
         IN  <<SubSeq(s, 1, i - 1)>> \o Split(SubSeq(s, i + 1, Len(s)), sep)

\* sep.join(parts)
RECURSIVE Join(_, _)
Join(parts, sep) ==
    IF parts = <<>> THEN <<>>
    ELSE IF Len(parts) = 1 THEN parts[1]
    ELSE parts[1] \o <<sep>> \o Join(Tail(parts), sep)

\* `pat in s`
Contains(s, pat) ==
    \E i \in 0..Len(s) :
        i + Len(pat) <= Len(s) /\ SubSeq(s, i + 1, i + Len(pat)) = pat

\* s.strip(chars)
RECURSIVE Strip(_, _)
Strip(s, chars) ==
    IF s = <<>> THEN s
    ELSE IF s[1] \in chars THEN Strip(Tail(s), chars)
    ELSE IF s[Len(s)] \in chars THEN Strip(SubSeq(s, 1, Len(s) - 1), chars)
    ELSE s

\* re.sub(c+, c, s): every run of the character c becomes one c.
Collapse(s, c) ==
    SelectSeq([i \in DOMAIN s |-> <<s[i], i > 1 /\ s[i - 1] = c>>],
              LAMBDA p : ~(p[1] = c /\ p[2]))

Firsts(pairs) == [i \in DOMAIN pairs |-> pairs[i][1]]

(***************************************************************************)
(* sanitize_username (utils.py)                                            *)
(***************************************************************************)
SafeChars == Range(LowerCase) \cup Digits \cup {".", "-"}

\* The function without its third substitution: runs of dots are kept.
sanitized_keeping_dot_runs(subject) ==
    LET lowered == Lower(subject)
        replaced == [i \in DOMAIN lowered |->
                        IF lowered[i] \in SafeChars THEN lowered[i] ELSE "-"]
        dashes == Firsts(Collapse(replaced, "-"))
    IN  Strip(dashes, {"-", "."})

\* The four substitutions and the strip, in the order of the function body.
sanitized(subject) ==
    LET lowered == Lower(subject)
        replaced == [i \in DOMAIN lowered |->
                        IF lowered[i] \in SafeChars THEN lowered[i] ELSE "-"]
        dashes == Firsts(Collapse(replaced, "-"))
        dots == Firsts(Collapse(dashes, "."))
    IN  Strip(dots, {"-", "."})

\* The value returned, or the ValueError raised for an empty result.
sanitize_username(subject) ==
    [raises |-> sanitized(subject) = <<>>, value |-> sanitized(subject)]

(***************************************************************************)
(* The RBAC policy text of a ConfigMap (policy.csv) and its two editors    *)
(***************************************************************************)
NL == "\n"

RoleText(rolename) ==
    CASE rolename = "admin" -> <<"a", "d", "m", "i", "n">>
      [] rolename = "developer" -> <<"d", "e", "v", "e", "l", "o", "p", "e", "r">>
      [] rolename = "readonly" -> <<"r", "e", "a", "d", "o", "n", "l", "y">>
      [] OTHER -> <<"o", "w", "n", "e", "r">>

\* f"g, {username}, "
SubjectToken(subject) == <<"g", ",", " ">> \o subject \o <<",", " ">>

\* f"g, {username}, role:{role}"
PolicyLine(subject, rolename) ==
    <<"g", ",", " ">> \o subject \o <<",", " ", "r", "o", "l", "e", ":">>
        \o RoleText(rolename)

LinesWithout(text, subject) ==
    SelectSeq(Split(text, NL),
              LAMBDA line : ~Contains(line, SubjectToken(subject)))

\* Mutant of upsert_policy: the new line is appended without filtering.
upsert_policy_append_only(text, subject, rolename) ==
    Join(Append(Split(text, NL), PolicyLine(subject, rolename)), NL)

\* _update_rbac_policy, lines 88-94: the policy it writes.
upsert_policy(text, subject, rolename) ==
    Join(Append(LinesWithout(text, subject), PolicyLine(subject, rolename)), NL)

\* _remove_rbac_policy, lines 43-52: the policy it would write; an empty
\* policy is left alone.
remove_policy(text, subject) ==
    IF text = <<>> THEN text ELSE Join(LinesWithout(text, subject), NL)

(***************************************************************************)
(* The confirmation prompt of the delete commands                          *)
(***************************************************************************)
MaxAnswerLen == 3

AnswerChars == {"y", "Y", "e", "E", "s", "n", " "}

\* What the operator may type at the prompt.
Answers == SeqsUpTo(AnswerChars, MaxAnswerLen)

\* Mutant of `confirmed`: anything that starts with a y is a yes.
confirmed_by_prefix(answer) == answer # <<>> /\ LowerChar(answer[1]) = "y"

\* confirm.lower() in ["y", "yes"]
confirmed(answer) == Lower(answer) \in {<<"y">>, <<"y", "e", "s">>}

(***************************************************************************)
(* delete_instance (cli/instance_delete.py)                                *)
(***************************************************************************)
DELETE_STEPS ==
    <<St("confirm"), St("check_kubectl"), St("get_config"),
      St("get_namespace"), St("client"), St("load_instance_config"),
      St("delete_provision"),
      WfSt("deprovision_apply", "mysql"), WfSt("deprovision_apply", "mongodb"),
      WfSt("deprovision_apply", "storage"),
      WfSt("deprovision_wait", "mysql"), WfSt("deprovision_wait", "mongodb"),
      WfSt("deprovision_wait", "storage"),
      St("deprovision_cleanup"), St("delete_application"), St("cleanup_rbac"),
      St("delete_namespace"), St("verify_namespace"), St("remove_dir")>>

DeleteAfter(st) ==
    LET i == CHOOSE k \in DOMAIN DELETE_STEPS : DELETE_STEPS[k] = st
    IN  IF i = Len(DELETE_STEPS) THEN St("returned") ELSE DELETE_STEPS[i + 1]

\* The steps the function runs without check=True or inside try/except.
BestEffortSteps ==
    {St("delete_provision"), St("delete_application"), St("cleanup_rbac")}
        \cup {WfSt(s, w) : s \in {"deprovision_apply", "deprovision_wait"},
                           w \in WorkflowNames}

ClusterState ==
    [dir |-> instance_dir, ns |-> ns_exists, rbac |-> rbac_objects,
     provision |-> provision_wf, application |-> application,
     deprovision |-> deprovision_wf]

NoObs == [get0 |-> "unset", delete_rc |-> "unset", verify |-> "unset"]

\* Exit status of `kubectl get namespace <name>`: zero only when the API
\* server answered and the namespace is there.
get_namespace_rc(exists, reachable) ==
    IF exists /\ reachable THEN "zero" ELSE "nonzero"

DeletePark ==
    /\ di_pc = St("returned")
    /\ di_steps = <<>>
    /\ di_exc = "none"
    /\ di_force = TRUE
    /\ di_answer = <<>>
    /\ di_asked = FALSE
    /\ di_failures = {}
    /\ di_obs = NoObs
    /\ di_cluster0 = ClusterState

\* The instance may be fully provisioned, already gone from the cluster, or
\* known only to the cluster.
DeleteInit ==
    /\ instance_dir \in {NoDir, [exists |-> TRUE, config |-> TRUE,
                                 application |-> TRUE]}
    /\ ns_exists \in BOOLEAN
    /\ rbac_objects = IF ns_exists THEN "all" ELSE "none"
    /\ controller = TRUE
    /\ \E left \in BOOLEAN :
          provision_wf = [w \in WorkflowNames |-> ns_exists /\ left]
    /\ application = ns_exists
    /\ deprovision_wf = [w \in WorkflowNames |-> FALSE]
    /\ di_pc = DELETE_STEPS[1]
    /\ di_steps = <<>>
    /\ di_exc = "none"
    /\ di_force \in BOOLEAN
    /\ di_answer = <<>>
    /\ di_asked = FALSE
    /\ di_failures = {}
    /\ di_obs = NoObs
    /\ di_cluster0 = ClusterState

\* The step at di_pc raised `exc`.
DeleteRaise(exc) ==
    /\ di_pc' = St("raised")
    /\ di_steps' = Append(di_steps, di_pc)
    /\ di_exc' = exc

\* The step at di_pc completed and the function goes on with `next`.
DeleteGoto(next) ==
    /\ di_pc' = next
    /\ di_steps' = Append(di_steps, di_pc)
    /\ di_exc' = "none"

DeleteAdvance == DeleteGoto(DeleteAfter(di_pc))

\* Mutant of after_best_effort: a failed deprovision apply propagates.
after_best_effort_strict(st, failed) ==
    IF failed /\ st.step = "deprovision_apply" THEN St("raised")
    ELSE DeleteAfter(st)

\* check=False and `except Exception`: whether or not the step failed, the
\* function goes on with the next step.
after_best_effort(st, failed) == DeleteAfter(st)

\* A best-effort step ends, failed or not.
BestEffortDone(failed) ==
    /\ di_pc' = after_best_effort(di_pc, failed)
    /\ di_steps' = Append(di_steps, di_pc)
    /\ di_exc' = IF di_pc' = St("raised") THEN "Exception" ELSE "none"
    /\ di_failures' = IF failed THEN di_failures \cup {di_pc} ELSE di_failures

\* Lines 269-275: the prompt, skipped when forced.
DeleteConfirm ==
    /\ di_pc = St("confirm")
    /\ \/ /\ di_force
          /\ DeleteAdvance
          /\ UNCHANGED <<di_answer, di_asked>>
       \/ /\ ~di_force
          /\ \E a \in Answers :
                /\ di_answer' = a
                /\ di_asked' = TRUE
                /\ IF confirmed(a) THEN DeleteAdvance
                   ELSE DeleteGoto(St("returned"))
    /\ UNCHANGED <<clusterVars, di_force, di_failures, di_obs, di_cluster0>>
    /\ DeleteFrame

\* Line 277: check_command_installed("kubectl").
DeleteCheckKubectl ==
    /\ di_pc = St("check_kubectl")
    /\ \/ DeleteAdvance
       \/ DeleteRaise("CommandNotFoundError")
    /\ UNCHANGED <<clusterVars, di_force, di_answer, di_asked, di_failures,
                   di_obs, di_cluster0>>
    /\ DeleteFrame

\* Line 279: get_config().
DeleteGetConfig ==
    /\ di_pc = St("get_config")
    /\ \/ DeleteAdvance
       \/ DeleteRaise("ConfigurationError")
    /\ UNCHANGED <<clusterVars, di_force, di_answer, di_asked, di_failures,
                   di_obs, di_cluster0>>
    /\ DeleteFrame

\* Lines 281-289: kubectl get namespace, check=False; a non-zero exit is
\* taken to mean that the namespace does not exist.
DeleteGetNamespace ==
    /\ di_pc = St("get_namespace")
    /\ \E reachable \in BOOLEAN :
          LET rc == get_namespace_rc(ns_exists, reachable)
          IN  /\ di_obs' = [di_obs EXCEPT !.get0 = rc]
              /\ IF rc # "zero" THEN DeleteGoto(St("remove_dir"))
                 ELSE DeleteAdvance
    /\ UNCHANGED <<clusterVars, di_force, di_answer, di_asked, di_failures,
                   di_cluster0>>
    /\ DeleteFrame

\* Line 290: KubernetesClient() loads the kubeconfig.
DeleteClient ==
    /\ di_pc = St("client")
    /\ \/ DeleteAdvance
       \/ DeleteRaise("KubernetesError")
    /\ UNCHANGED <<clusterVars, di_force, di_answer, di_asked, di_failures,
                   di_obs, di_cluster0>>
    /\ DeleteFrame

\* Line 296: load_instance_config returns the instance's configuration.
load_instance_config ==
    /\ di_pc = St("load_instance_config")
    /\ DeleteAdvance
    /\ UNCHANGED <<clusterVars, di_force, di_answer, di_asked, di_failures,
                   di_obs, di_cluster0>>
    /\ DeleteFrame

\* _delete_provision_workflows: three kubectl delete, check=False.
DeleteProvisionWorkflows ==
    /\ di_pc = St("delete_provision")
    /\ \E deleted \in SUBSET WorkflowNames :
          /\ provision_wf' = [w \in WorkflowNames |->
                                 provision_wf[w] /\ w \notin deleted]
          /\ BestEffortDone(deleted # WorkflowNames)
    /\ UNCHANGED <<instance_dir, ns_exists, rbac_objects, controller,
                   application, deprovision_wf, di_force, di_answer, di_asked,
                   di_obs, di_cluster0>>
    /\ DeleteFrame

\* _create_deprovision_workflows, first loop (lines 125-140): every
\* exception of apply_manifest_from_url is caught and logged.
DeprovisionApply ==
    /\ di_pc.step = "deprovision_apply"
    /\ \E ok \in BOOLEAN :
          /\ deprovision_wf' = IF ok
                               THEN [deprovision_wf EXCEPT ![di_pc.wf] = TRUE]
                               ELSE deprovision_wf
          /\ BestEffortDone(~ok)
    /\ UNCHANGED <<instance_dir, ns_exists, rbac_objects, controller,
                   provision_wf, application, di_force, di_answer, di_asked,
                   di_obs, di_cluster0>>
    /\ DeleteFrame

\* Second loop (lines 145-147): a false result only clears all_succeeded; a
\* workflow that was never applied cannot be waited on successfully.
DeprovisionWait ==
    /\ di_pc.step = "deprovision_wait"
    /\ \E r \in BOOLEAN :
          /\ r => deprovision_wf[di_pc.wf]
          /\ BestEffortDone(~r)
    /\ UNCHANGED <<clusterVars, di_force, di_answer, di_asked, di_obs,
                   di_cluster0>>
    /\ DeleteFrame

DeprovisionWaits == {WfSt("deprovision_wait", w) : w \in WorkflowNames}

\* Lines 149-161: list the workflows; when all succeeded delete them,
\* check=False.
DeprovisionCleanup ==
    /\ di_pc = St("deprovision_cleanup")
    /\ IF di_failures \cap DeprovisionWaits = {}
       THEN \E deleted \in SUBSET WorkflowNames :
               deprovision_wf' = [w \in WorkflowNames |->
                                     deprovision_wf[w] /\ w \notin deleted]
       ELSE UNCHANGED deprovision_wf
    /\ DeleteAdvance
    /\ UNCHANGED <<instance_dir, ns_exists, rbac_objects, controller,
                   provision_wf, application, di_force, di_answer, di_asked,
                   di_failures, di_obs, di_cluster0>>
    /\ DeleteFrame

\* Line 178: load_application_config returns the parsed application.yml.
load_application_config == di_pc = St("delete_application")

\* _delete_argocd_application: kubectl delete application, check=False;
\* a non-zero exit is logged.
DeleteApplication ==
    /\ load_application_config
    /\ \E ok \in BOOLEAN :
          /\ application' = (application /\ ~ok)
          /\ BestEffortDone(~ok)
    /\ UNCHANGED <<instance_dir, ns_exists, rbac_objects, controller,
                   provision_wf, deprovision_wf, di_force, di_answer, di_asked,
                   di_obs, di_cluster0>>
    /\ DeleteFrame

\* _cleanup_rbac: kubectl delete clusterrole and clusterrolebinding,
\* check=False.
CleanupRbac ==
    /\ di_pc = St("cleanup_rbac")
    /\ \E left \in {"none", "partial", rbac_objects} :
          /\ left = "none" \/ rbac_objects # "none"
          /\ rbac_objects' = left
          /\ BestEffortDone(left # "none")
    /\ UNCHANGED <<instance_dir, ns_exists, controller, provision_wf,
                   application, deprovision_wf, di_force, di_answer, di_asked,
                   di_obs, di_cluster0>>
    /\ DeleteFrame

\* Lines 310-322: check=True; CalledProcessError becomes KubernetesError.
after_delete_namespace(rc) == IF rc = "zero" THEN "continue" ELSE "raise"

\* kubectl delete namespace --timeout=300s: it may fail or time out, and a
\* zero exit does not by itself show that the namespace is gone.  A deleted
\* namespace takes its workflows with it.
DeleteNamespace ==
    /\ di_pc = St("delete_namespace")
    /\ \E rc \in {"zero", "nonzero"}, gone \in BOOLEAN :
          /\ ns_exists' = (ns_exists /\ ~gone)
          /\ provision_wf' = IF gone THEN [w \in WorkflowNames |-> FALSE]
                             ELSE provision_wf
          /\ deprovision_wf' = IF gone THEN [w \in WorkflowNames |-> FALSE]
                               ELSE deprovision_wf
          /\ di_obs' = [di_obs EXCEPT !.delete_rc = rc]
          /\ IF after_delete_namespace(rc) = "raise"
             THEN DeleteRaise("KubernetesError")
             ELSE DeleteAdvance
    /\ UNCHANGED <<instance_dir, rbac_objects, controller, application,
                   di_force, di_answer, di_asked, di_failures, di_cluster0>>
    /\ DeleteFrame

\* Lines 324-335: kubectl get namespace again; a zero exit raises.
VerifyNamespace ==
    /\ di_pc = St("verify_namespace")
    /\ \E reachable \in BOOLEAN :
          LET rc == get_namespace_rc(ns_exists, reachable)
          IN  /\ di_obs' = [di_obs EXCEPT !.verify = rc]
              /\ IF rc = "zero" THEN DeleteRaise("KubernetesError")
                 ELSE DeleteAdvance
    /\ UNCHANGED <<clusterVars, di_force, di_answer, di_asked, di_failures,
                   di_cluster0>>
    /\ DeleteFrame

\* Lines 337-347: rm -rf of the instance directory when it exists,
\* check=False.
RemoveInstanceDir ==
    /\ di_pc = St("remove_dir")
    /\ \/ /\ instance_dir.exists
          /\ instance_dir' \in {NoDir, instance_dir}
       \/ /\ ~instance_dir.exists
          /\ UNCHANGED instance_dir
    /\ DeleteAdvance
    /\ UNCHANGED <<ns_exists, rbac_objects, controller, provision_wf,
                   application, deprovision_wf, di_force, di_answer, di_asked,
                   di_failures, di_obs, di_cluster0>>
    /\ DeleteFrame

DeleteNext ==
    \/ DeleteConfirm
    \/ DeleteCheckKubectl
    \/ DeleteGetConfig
    \/ DeleteGetNamespace
    \/ DeleteClient
    \/ load_instance_config
    \/ DeleteProvisionWorkflows
    \/ DeprovisionApply
    \/ DeprovisionWait
    \/ DeprovisionCleanup
    \/ DeleteApplication
    \/ CleanupRbac
    \/ DeleteNamespace
    \/ VerifyNamespace
    \/ RemoveInstanceDir

(***************************************************************************)
(* Argo users: create_argo_user (cli/argo_user_create.py) and              *)
(* delete_argo_user (cli/argo_user_delete.py)                              *)
(***************************************************************************)
VALID_ROLES == {"admin", "developer", "readonly"}

RBAC_CONFIGMAPS == {"argocd-rbac-cm", "argo-server-rbac-config"}

\* f"accounts.{name}"
AccountKey(name) == <<"a", "c", "c", "o", "u", "n", "t", "s", ".">> \o name

\* f"accounts.{name}.password", ".enabled", ".tokens"
AccountField(name, field) ==
    AccountKey(name) \o
        (CASE field = "password" -> <<".", "p", "a", "s", "s", "w", "o", "r", "d">>
           [] field = "enabled" -> <<".", "e", "n", "a", "b", "l", "e", "d">>
           [] field = "tokens" -> <<".", "t", "o", "k", "e", "n", "s">>)

SsoKeys(name) ==
    {AccountField(name, f) : f \in {"enabled", "password", "tokens"}}

\* The six objects _remove_kubernetes_resources deletes, in its order, with
\* the suffix each name adds to the user name.
RESOURCES ==
    <<[kind |-> "service account", suffix |-> <<>>],
      [kind |-> "token secret", suffix |-> <<"-", "t", "o", "k", "e", "n">>],
      [kind |-> "role", suffix |-> <<"-", "w", "o", "r", "k", "f", "l", "o", "w", "s">>],
      [kind |-> "role binding", suffix |-> <<"-", "b", "i", "n", "d", "i", "n", "g">>],
      [kind |-> "cluster role", suffix |-> <<"-", "c", "l", "u", "s", "t", "e", "r", "-", "w", "o", "r", "k", "f", "l", "o", "w", "s">>],
      [kind |-> "cluster role binding", suffix |-> <<"-", "c", "l", "u", "s", "t", "e", "r", "-", "b", "i", "n", "d", "i", "n", "g">>]>>

ResourceNamed(kind, name) ==
    LET r == CHOOSE x \in Range(RESOURCES) : x.kind = kind
    IN  [kind |-> kind, name |-> name \o r.suffix]

USER_CREATE_STEPS ==
    <<St("validate"), St("setup"), St("sso_secret"), St("argo_rbac"),
      St("argocd_cm"), St("argocd_secret"), St("argocd_rbac"),
      St("service_account"), St("role"), St("bindings"), St("token_secret"),
      St("wait_token"), St("sso_token")>>

REMOVAL_STEPS ==
    <<St("rm_argocd_cm"), St("rm_argocd_secret"), St("rm_argocd_rbac"),
      St("rm_sso_secret"), St("rm_argo_rbac")>>
        \o [i \in DOMAIN RESOURCES |-> WfSt("rm_object", RESOURCES[i].kind)]

USER_DELETE_STEPS == <<St("confirm"), St("client")>> \o REMOVAL_STEPS

UserStepAfter(steps, st) ==
    LET i == CHOOSE k \in DOMAIN steps : steps[k] = st
    IN  IF i = Len(steps) THEN St("returned") ELSE steps[i + 1]

UserCluster ==
    [cm |-> argocd_cm, secret |-> argocd_secret, sso |-> sso_secret,
     policy |-> policy, objects |-> k8s_objects]

SetUserCluster(c) ==
    /\ argocd_cm' = c.cm
    /\ argocd_secret' = c.secret
    /\ sso_secret' = c.sso
    /\ policy' = c.policy
    /\ k8s_objects' = c.objects

NothingAdded ==
    [complete |-> FALSE, cm |-> {}, secret |-> {}, sso |-> {}, lines |-> {},
     objects |-> {}]

\* Another user's entries, which neither command is asked to touch.
OTHER_USER == <<"a", "b">>

UserNames ==
    {<<"a">>, <<"a", ".", "b">>, <<"A">>, <<"a", "@", "b">>, <<"@">>}

UserPark ==
    /\ username = OTHER_USER
    /\ role = "developer"
    /\ argocd_cm = {}
    /\ argocd_secret = {}
    /\ sso_secret = {}
    /\ policy = [c \in RBAC_CONFIGMAPS |-> <<>>]
    /\ k8s_objects = {}
    /\ u_cmd = "none"
    /\ u_pc = St("returned")
    /\ u_steps = <<>>
    /\ u_failed = {}
    /\ u_exc = "none"
    /\ u_force = TRUE
    /\ u_answer = <<>>
    /\ u_asked = FALSE
    /\ u_added = NothingAdded
    /\ u_cluster0 = UserCluster

\* The cluster holds the other user; the operator creates or deletes a user.
UserInit ==
    /\ username \in UserNames
    /\ argocd_cm = {AccountKey(OTHER_USER)}
    /\ argocd_secret = {AccountField(OTHER_USER, "password")}
    /\ sso_secret = SsoKeys(OTHER_USER)
    /\ \E p \in {<<>>, PolicyLine(OTHER_USER, "admin")} :
          policy = [c \in RBAC_CONFIGMAPS |-> p]
    /\ k8s_objects = {ResourceNamed(k, OTHER_USER) :
                         k \in {"service account", "token secret"}}
    /\ \/ /\ u_cmd = "create"
          /\ role \in {"developer", "owner"}
          /\ u_pc = USER_CREATE_STEPS[1]
          /\ u_force = TRUE
       \/ /\ u_cmd = "delete"
          /\ role = "developer"
          /\ u_pc = USER_DELETE_STEPS[1]
          /\ u_force \in BOOLEAN
    /\ u_steps = <<>>
    /\ u_failed = {}
    /\ u_exc = "none"
    /\ u_answer = <<>>
    /\ u_asked = FALSE
    /\ u_added = NothingAdded
    /\ u_cluster0 = UserCluster

UserRaise(exc) ==
    /\ u_pc' = St("raised")
    /\ u_steps' = Append(u_steps, u_pc)
    /\ u_exc' = exc

UserGoto(next) ==
    /\ u_pc' = next
    /\ u_steps' = Append(u_steps, u_pc)
    /\ u_exc' = "none"

UserCreateAdvance == UserGoto(UserStepAfter(USER_CREATE_STEPS, u_pc))

UserInputs == UNCHANGED <<username, role, u_cmd, u_force, u_answer, u_asked>>

\* A cluster call of create_argo_user: it takes effect, or it raises
\* KubernetesError and nothing of create_argo_user catches it.
UserCreateCall(after, added) ==
    /\ \/ /\ SetUserCluster(after)
          /\ u_added' = added
          /\ UserCreateAdvance
       \/ /\ UNCHANGED <<userCluster, u_added>>
          /\ UserRaise("KubernetesError")
    /\ UNCHANGED <<u_failed, u_cluster0>>
    /\ UserInputs
    /\ UserFrame

\* A step of create_argo_user with no effect on the modelled objects.
UserCreatePlain(excs) ==
    /\ \/ UserCreateAdvance
       \/ \E e \in excs : UserRaise(e)
    /\ UNCHANGED <<userCluster, u_added, u_failed, u_cluster0>>
    /\ UserInputs
    /\ UserFrame

Sanitized == sanitize_username(username).value

\* Lines 376-382: the role must be a valid one (the password is given).
UserValidate ==
    /\ u_cmd = "create" /\ u_pc = St("validate")
    /\ IF role \in VALID_ROLES THEN UserCreateAdvance ELSE UserRaise("ValueError")
    /\ UNCHANGED <<userCluster, u_added, u_failed, u_cluster0>>
    /\ UserInputs
    /\ UserFrame

\* Lines 386-388: KubernetesClient(), get_config(), bcrypt_password.
UserSetup ==
    /\ u_cmd = "create" /\ u_pc = St("setup")
    /\ UserCreatePlain({"KubernetesError", "ConfigurationError", "PasswordError"})

\* _configure_argo_workflows_user, lines 127-140: sanitize the name, then
\* patch the three SSO keys.
CreateSsoSecret ==
    /\ u_cmd = "create" /\ u_pc = St("sso_secret")
    /\ IF sanitize_username(username).raises
       THEN /\ UserRaise("ValueError")
            /\ UNCHANGED <<userCluster, u_added, u_failed, u_cluster0>>
            /\ UserInputs
            /\ UserFrame
       ELSE UserCreateCall(
               [UserCluster EXCEPT !.sso = @ \cup SsoKeys(Sanitized)],
               [u_added EXCEPT !.sso = @ \cup SsoKeys(Sanitized)])

\* _update_rbac_policy on `cm` with the sanitized name.
CreateRbacLine(cm) ==
    UserCreateCall(
       [UserCluster EXCEPT
           !.policy[cm] = upsert_policy(@, Sanitized, role)],
       [u_added EXCEPT
           !.lines = @ \cup {[cm |-> cm, line |-> PolicyLine(Sanitized, role)]}])

\* Lines 142-148.
CreateArgoRbac ==
    /\ u_cmd = "create" /\ u_pc = St("argo_rbac")
    /\ CreateRbacLine("argo-server-rbac-config")

\* _configure_argocd_user, lines 176-197.
CreateArgocdCm ==
    /\ u_cmd = "create" /\ u_pc = St("argocd_cm")
    /\ UserCreateCall([UserCluster EXCEPT !.cm = @ \cup {AccountKey(Sanitized)}],
                      [u_added EXCEPT !.cm = @ \cup {AccountKey(Sanitized)}])

\* Lines 199-207.
CreateArgocdSecret ==
    /\ u_cmd = "create" /\ u_pc = St("argocd_secret")
    /\ UserCreateCall(
          [UserCluster EXCEPT
              !.secret = @ \cup {AccountField(Sanitized, "password")}],
          [u_added EXCEPT
              !.secret = @ \cup {AccountField(Sanitized, "password")}])

\* Lines 209-215.
CreateArgocdRbac ==
    /\ u_cmd = "create" /\ u_pc = St("argocd_rbac")
    /\ CreateRbacLine("argocd-rbac-cm")

\* _create_service_account_and_token, lines 284-302.
CreateServiceAccount ==
    /\ u_cmd = "create" /\ u_pc = St("service_account")
    /\ LET sa == ResourceNamed("service account", Sanitized)
       IN  UserCreateCall([UserCluster EXCEPT !.objects = @ \cup {sa}],
                          [u_added EXCEPT !.objects = @ \cup {sa}])

\* Lines 304-328: the role and binding manifests are fetched from
\* manifests_url; what they create is not part of this model.
CreateRoleManifest ==
    /\ u_cmd = "create" /\ u_pc = St("role")
    /\ UserCreatePlain({"ManifestError", "KubernetesError"})

CreateBindingsManifest ==
    /\ u_cmd = "create" /\ u_pc = St("bindings")
    /\ UserCreatePlain({"ManifestError", "KubernetesError"})

\* Lines 330-337: the token secret, which _wait_for_token_generation then
\* reads as f"{k8s_name}-token".
CreateTokenSecret ==
    /\ u_cmd = "create" /\ u_pc = St("token_secret")
    /\ LET secret == ResourceNamed("token secret", Sanitized)
       IN  UserCreateCall([UserCluster EXCEPT !.objects = @ \cup {secret}],
                          [u_added EXCEPT !.objects = @ \cup {secret}])

\* _wait_for_token_generation: the token, or KubernetesError after the
\* last poll.
WaitForToken ==
    /\ u_cmd = "create" /\ u_pc = St("wait_token")
    /\ ResourceNamed("token secret", Sanitized) \in k8s_objects
    /\ UserCreatePlain({"KubernetesError"})

\* Lines 341-350: the token is written into the SSO secret.
CreateSsoToken ==
    /\ u_cmd = "create" /\ u_pc = St("sso_token")
    /\ UserCreateCall(
          [UserCluster EXCEPT
              !.sso = @ \cup {AccountField(Sanitized, "tokens")}],
          [u_added EXCEPT !.complete = TRUE])

\* The operator runs delete_argo_user for the user just created.
StartDelete ==
    /\ u_cmd = "create" /\ u_pc = St("returned")
    /\ u_cmd' = "delete"
    /\ u_pc' = USER_DELETE_STEPS[1]
    /\ u_force' \in BOOLEAN
    /\ u_steps' = <<>>
    /\ u_cluster0' = UserCluster
    /\ UNCHANGED <<username, role, userCluster, u_failed, u_exc, u_answer,
                   u_asked, u_added>>
    /\ UserFrame

\* Lines 210-214: the prompt, skipped when forced.
UserDeleteConfirm ==
    /\ u_cmd = "delete" /\ u_pc = St("confirm")
    /\ \/ /\ u_force
          /\ UserGoto(UserStepAfter(USER_DELETE_STEPS, u_pc))
          /\ UNCHANGED <<u_answer, u_asked>>
       \/ /\ ~u_force
          /\ \E a \in Answers :
                /\ u_answer' = a
                /\ u_asked' = TRUE
                /\ IF confirmed(a)
                   THEN UserGoto(UserStepAfter(USER_DELETE_STEPS, u_pc))
                   ELSE UserGoto(St("returned"))
    /\ UNCHANGED <<username, role, userCluster, u_cmd, u_force, u_failed,
                   u_added, u_cluster0>>
    /\ UserFrame

\* Line 216: KubernetesClient() loads the kubeconfig.
UserDeleteClient ==
    /\ u_cmd = "delete" /\ u_pc = St("client")
    /\ \/ UserGoto(UserStepAfter(USER_DELETE_STEPS, u_pc))
       \/ UserRaise("ConfigException")
    /\ UNCHANGED <<userCluster, u_added, u_failed, u_cluster0>>
    /\ UserInputs
    /\ UserFrame

\* Mutant of after_removal: a failed object deletion propagates.
after_removal_strict(st, failed) ==
    IF failed /\ st.step = "rm_object" THEN St("raised")
    ELSE UserStepAfter(USER_DELETE_STEPS, st)

\* Every removal step sits in its own try / except Exception: failed or
\* not, delete_argo_user goes on with the next one.
after_removal(st, failed) == UserStepAfter(USER_DELETE_STEPS, st)

\* A removal step: its calls succeed and leave the cluster as `after`, or
\* one of them fails and the step changes nothing.
Removal(after) ==
    /\ \E ok \in BOOLEAN :
          /\ SetUserCluster(IF ok THEN after ELSE UserCluster)
          /\ u_pc' = after_removal(u_pc, ~ok)
          /\ u_exc' = IF u_pc' = St("raised") THEN "KubernetesError" ELSE "none"
          /\ u_failed' = IF ok THEN u_failed ELSE u_failed \cup {u_pc}
    /\ u_steps' = Append(u_steps, u_pc)
    /\ UNCHANGED <<u_added, u_cluster0>>
    /\ UserInputs
    /\ UserFrame

\* _remove_argocd_user, lines 78-98: the raw user name.
RemoveArgocdCm ==
    /\ u_cmd = "delete" /\ u_pc = St("rm_argocd_cm")
    /\ Removal([UserCluster EXCEPT !.cm = @ \ {AccountKey(username)}])

\* Lines 100-112.
RemoveArgocdSecret ==
    /\ u_cmd = "delete" /\ u_pc = St("rm_argocd_secret")
    /\ Removal([UserCluster EXCEPT
                   !.secret = @ \ {AccountField(username, "password")}])

\* Line 114: _remove_rbac_policy on argocd-rbac-cm.
RemoveArgocdRbac ==
    /\ u_cmd = "delete" /\ u_pc = St("rm_argocd_rbac")
    /\ Removal([UserCluster EXCEPT
                   !.policy["argocd-rbac-cm"] = remove_policy(@, username)])

\* _remove_argo_workflows_user, lines 128-144.
RemoveSsoSecret ==
    /\ u_cmd = "delete" /\ u_pc = St("rm_sso_secret")
    /\ Removal([UserCluster EXCEPT !.sso = @ \ SsoKeys(username)])

\* Line 146: _remove_rbac_policy on argo-server-rbac-config.
RemoveArgoRbac ==
    /\ u_cmd = "delete" /\ u_pc = St("rm_argo_rbac")
    /\ Removal([UserCluster EXCEPT
                   !.policy["argo-server-rbac-config"] =
                       remove_policy(@, username)])

\* _remove_kubernetes_resources, lines 177-190: one object per iteration; a
\* missing object (404) is not a failure.
RemoveObject ==
    /\ u_cmd = "delete" /\ u_pc.step = "rm_object"
    /\ Removal([UserCluster EXCEPT
                   !.objects = @ \ {ResourceNamed(u_pc.wf, username)}])

UserNext ==
    \/ UserValidate
    \/ UserSetup
    \/ CreateSsoSecret
    \/ CreateArgoRbac
    \/ CreateArgocdCm
    \/ CreateArgocdSecret
    \/ CreateArgocdRbac
    \/ CreateServiceAccount
    \/ CreateRoleManifest
    \/ CreateBindingsManifest
    \/ CreateTokenSecret
    \/ WaitForToken
    \/ CreateSsoToken
    \/ StartDelete
    \/ UserDeleteConfirm
    \/ UserDeleteClient
    \/ RemoveArgocdCm
    \/ RemoveArgocdSecret
    \/ RemoveArgocdRbac
    \/ RemoveSsoSecret
    \/ RemoveArgoRbac
    \/ RemoveObject

(***************************************************************************)
(* The RBAC policy editors on their own: _update_rbac_policy               *)
(* (cli/argo_user_create.py, cli/argo_user_update.py) and                  *)
(* _remove_rbac_policy (cli/argo_user_delete.py)                           *)
(***************************************************************************)
MaxEdits == 2

\* Subjects as the sanitizer returns them; some are parts of others.
PolicySubjects ==
    {s \in {<<"a">>, <<"b">>, <<"a", "b">>, <<"a", ".",
      "b">>} : sanitized(s) = s}

PolicyRoles == {"admin", "readonly"}

\* Policies found in the ConfigMap: empty, without groupings, with one or
\* several lines for a subject, written without spaces, with empty lines.
InitialPolicies ==
    {<<>>,
     <<"p", ",", " ", "x">>,
     <<"g", ",", " ", "a", ",", " ", "r", "o", "l", "e", ":", "a", "d", "m",
       "i", "n">>,
     <<"g", ",", " ", "a", ",", " ", "r", "o", "l", "e", ":", "a", "d", "m",
       "i", "n", "\n", "g", ",", " ", "a", ",", " ", "r", "o", "l", "e", ":",
       "r", "e", "a", "d", "o", "n", "l", "y", "\n", "g", ",", " ", "a", "b",
       ",", " ", "r", "o", "l", "e", ":", "a", "d", "m", "i", "n">>,
     <<"g", ",", "a", ",", "r", "o", "l", "e", ":", "a", "d", "m", "i", "n">>,
     <<"g", ",", " ", "a", "b", ",", " ", "r", "o", "l", "e", ":", "a", "d",
       "m", "i", "n", "\n">>,
     <<"\n", "\n", "g", ",", " ", "b", ",", " ", "r", "o", "l", "e", ":",
       "r", "e", "a", "d", "o", "n", "l", "y", "\n", "p", ",", " ", "g", ",",
       " ", "a", ".", "b", ",", " ", "x">>}

\* No edit yet: `before` is the policy as it was found.
NoEdit ==
    [op |-> "none", cm |-> "argocd-rbac-cm", subject |-> <<>>,
     role |-> "admin", ok |-> FALSE, before |-> policy]

LinesFor(text, subject) ==
    LET lines == Split(text, NL)
    IN  {i \in DOMAIN lines : Contains(lines[i], SubjectToken(subject))}

PolicyPark ==
    /\ pe_last = NoEdit
    /\ pe_count = 0

PolicyInit ==
    /\ username = OTHER_USER
    /\ role = "developer"
    /\ argocd_cm = {}
    /\ argocd_secret = {}
    /\ sso_secret = {}
    /\ \E p \in InitialPolicies : policy = [c \in RBAC_CONFIGMAPS |-> p]
    /\ k8s_objects = {}
    /\ u_cmd = "none"
    /\ u_pc = St("returned")
    /\ u_steps = <<>>
    /\ u_failed = {}
    /\ u_exc = "none"
    /\ u_force = TRUE
    /\ u_answer = <<>>
    /\ u_asked = FALSE
    /\ u_added = NothingAdded
    /\ u_cluster0 = UserCluster
    /\ pe_last = NoEdit
    /\ pe_count = 0

PolicyEdited(op, cm, subject, rolename, ok) ==
    /\ pe_last' = [op |-> op, cm |-> cm, subject |-> subject,
                   role |-> rolename, ok |-> ok,
                   before |-> policy]
    /\ pe_count' = pe_count + 1
    /\ UNCHANGED <<username, role, argocd_cm, argocd_secret, sso_secret,
                   k8s_objects, u_cmd, u_pc, u_steps, u_failed, u_exc,
                   u_force, u_answer, u_asked, u_added, u_cluster0>>
    /\ PolicyFrame

\* _update_rbac_policy: read the ConfigMap, rewrite policy.csv, patch; a
\* failed read or patch raises and leaves the policy as it was.
UpdateRbacPolicy ==
    /\ pe_count < MaxEdits
    /\ \E cm \in RBAC_CONFIGMAPS, s \in PolicySubjects, r \in PolicyRoles,
          ok \in BOOLEAN :
          /\ policy' = IF ok
                       THEN [policy EXCEPT ![cm] = upsert_policy(@, s, r)]
                       ELSE policy
          /\ PolicyEdited("upsert", cm, s, r, ok)

\* _remove_rbac_policy: read, filter, patch when the text changed; every
\* failure is logged and swallowed.
RemoveRbacPolicy ==
    /\ pe_count < MaxEdits
    /\ \E cm \in RBAC_CONFIGMAPS, s \in PolicySubjects, ok \in BOOLEAN :
          /\ policy' = IF ok
                       THEN [policy EXCEPT ![cm] = remove_policy(@, s)]
                       ELSE policy
          /\ PolicyEdited("remove", cm, s, "admin", ok)

PolicyNext ==
    \/ UpdateRbacPolicy
    \/ RemoveRbacPolicy

(***************************************************************************)
(* _wait_for_workflow_completion (cli/instance_create.py and, line for     *)
(* line the same, cli/instance_delete.py)                                  *)
(***************************************************************************)
WORKFLOW_TIMEOUT == 300

Phases == {"Pending", "Running", "Succeeded", "Failed", "Error"}

\* The phases in which the workflow carries the condition Completed.
CompletedPhases == {"Succeeded", "Failed", "Error"}

PhaseAfter(phase) ==
    CASE phase = "Pending" -> {"Running", "Failed", "Error"}
      [] phase = "Running" -> CompletedPhases
      [] OTHER -> {}

\* Mutant of wait_result: a completed wait counts as success.
wait_result_any_phase(wait, get, status) == wait = "zero" /\ get = "zero"

\* Lines 213-254: True only when both commands exited zero and the phase
\* printed is Succeeded; CalledProcessError of either gives False.
wait_result(wait, get, status) ==
    wait = "zero" /\ get = "zero" /\ status = "Succeeded"

WaitPark ==
    /\ wf_phase = "Succeeded"
    /\ wf_phases = <<>>
    /\ w_pc = "returned"
    /\ w_elapsed = 0
    /\ w_wait = "none"
    /\ w_get = "none"
    /\ w_result = FALSE

\* The function is called for a workflow in any phase.
WaitInit ==
    /\ wf_phase \in Phases
    /\ wf_phases = <<wf_phase>>
    /\ w_pc = "wait"
    /\ w_elapsed = 0
    /\ w_wait = "none"
    /\ w_get = "none"
    /\ w_result = FALSE

\* The workflow controller moves the workflow on while kubectl wait blocks.
WorkflowProgress ==
    /\ w_pc = "wait"
    /\ \E next \in PhaseAfter(wf_phase) :
          /\ wf_phase' = next
          /\ wf_phases' = Append(wf_phases, next)
    /\ UNCHANGED <<w_pc, w_elapsed, w_wait, w_get, w_result>>
    /\ WaitFrame

\* A second passes while kubectl wait blocks on an uncompleted workflow.
WaitTick ==
    /\ w_pc = "wait"
    /\ wf_phase \notin CompletedPhases
    /\ w_elapsed < WORKFLOW_TIMEOUT
    /\ w_elapsed' = w_elapsed + 1
    /\ UNCHANGED <<wf_phase, wf_phases, w_pc, w_wait, w_get, w_result>>
    /\ WaitFrame

\* kubectl wait sees the condition Completed and exits zero.
WaitCompleted ==
    /\ w_pc = "wait"
    /\ wf_phase \in CompletedPhases
    /\ w_wait' = "zero"
    /\ w_pc' = "get"
    /\ UNCHANGED <<wf_phase, wf_phases, w_elapsed, w_get, w_result>>
    /\ WaitFrame

\* kubectl wait gives up after --timeout seconds and exits non-zero:
\* CalledProcessError, caught at line 252.
WaitTimedOut ==
    /\ w_pc = "wait"
    /\ wf_phase \notin CompletedPhases
    /\ w_elapsed = WORKFLOW_TIMEOUT
    /\ w_wait' = "timeout"
    /\ w_result' = wait_result("timeout", w_get, wf_phase)
    /\ w_pc' = "returned"
    /\ UNCHANGED <<wf_phase, wf_phases, w_elapsed, w_get>>
    /\ WaitFrame

\* kubectl wait exits non-zero for another reason (no such workflow, API
\* error): CalledProcessError, caught at line 252.
WaitFailed ==
    /\ w_pc = "wait"
    /\ w_wait' = "error"
    /\ w_result' = wait_result("error", w_get, wf_phase)
    /\ w_pc' = "returned"
    /\ UNCHANGED <<wf_phase, wf_phases, w_elapsed, w_get>>
    /\ WaitFrame

\* Lines 228-250: kubectl get prints the phase, or exits non-zero.
WaitGetPhase ==
    /\ w_pc = "get"
    /\ \E rc \in {"zero", "error"} :
          /\ w_get' = rc
          /\ w_result' = wait_result(w_wait, rc, wf_phase)
    /\ w_pc' = "returned"
    /\ UNCHANGED <<wf_phase, wf_phases, w_elapsed, w_wait>>
    /\ WaitFrame

\* What the commands run do on their own; the workflow may stall for ever.
WaitSteps ==
    \/ WaitTick
    \/ WaitCompleted
    \/ WaitTimedOut
    \/ WaitGetPhase

WaitNext ==
    \/ WorkflowProgress
    \/ WaitTick
    \/ WaitCompleted
    \/ WaitTimedOut
    \/ WaitFailed
    \/ WaitGetPhase

(***************************************************************************)
(* Calls of pure functions: the caller picks the arguments, the call runs  *)
(* once and leaves what it returned or the exception type it raised.       *)
(***************************************************************************)
Pending == [state |-> "pending", value |-> <<>>, exc |-> "none"]

Returned(v) == [state |-> "returned", value |-> v, exc |-> "none"]

Raised(exc) == [state |-> "raised", value |-> <<>>, exc |-> exc]

CallPark ==
    /\ fn_call = [fn |-> "none", args |-> <<>>]
    /\ fn_result = Pending

\* A Python value as YAML and JSON give it: its type, the text of a scalar
\* (the elements of a list) and the items of a mapping.
PyScalar(type, text) == [type |-> type, scalar |-> text, items |-> <<>>]

PyDict(items) == [type |-> "dict", scalar |-> <<>>, items |-> items]

PyNone == PyScalar("none", <<>>)

Absent == PyScalar("absent", <<>>)

ConfigPark ==
    /\ config_file = Absent
    /\ cfg_pc = "idle"
    /\ cfg_data = PyNone
    /\ cfg_saved = <<>>

EnvPark ==
    /\ env_dir = "missing"
    /\ env_files = <<>>
    /\ env_orig = <<>>
    /\ env_pos = 1
    /\ env_pc = "idle"
    /\ changed_paths = <<>>

\* The procedures below each keep their state in one record; Idle is the
\* state of a procedure that is not running.
Idle == [pc |-> "idle"]

KubePark == kube = Idle

InstallerPark == installer = Idle

EditorsPark == editors = Idle

TokenWaitPark == token_wait = Idle

OverridesPark == overrides = Idle

AccountsPark == accounts = Idle

ProcsPark ==
    /\ KubePark
    /\ InstallerPark
    /\ EditorsPark
    /\ TokenWaitPark
    /\ OverridesPark
    /\ AccountsPark

ToolsPark ==
    /\ CallPark
    /\ ConfigPark
    /\ EnvPark
    /\ ProcsPark

CommandsPark ==
    /\ ApplyPark
    /\ ClusterPark
    /\ CreatePark
    /\ DeletePark
    /\ UserPark
    /\ PolicyPark
    /\ WaitPark

Calls(fn, argss) == {[fn |-> fn, args |-> a] : a \in argss}

Called(fn) == fn_call.fn = fn /\ fn_result.state # "pending"

(***************************************************************************)
(* sanitize_username called on its own (utils.py)                          *)
(***************************************************************************)
MaxNameLen == 4

NameChars == {"a", "B", "1", "@", ".", "-"}

\* The inputs of tests/utils_test.py.
TestedNames ==
    {<<"U", "s", "e", "r", "@", "E", "x", "a", "m", "p", "l", "e", ".", "c", "o", "m">>,
     <<"a", "@", "@", "@", "b", "_", "_", "_", "c", ".", ".", "d", "-", "-", "e">>,
     <<"-", "-", ".", "n", "a", "m", "e", ".", "-", "-">>,
     <<"@", "@", "@", "@">>}

SanitizeInit ==
    /\ fn_call \in Calls("sanitize_username",
                         {<<u>> : u \in SeqsUpTo(NameChars, MaxNameLen)
                                        \cup TestedNames})
    /\ fn_result = Pending
    /\ ConfigPark
    /\ EnvPark

SanitizeUsername ==
    /\ fn_call.fn = "sanitize_username"
    /\ fn_result.state = "pending"
    /\ LET r == sanitize_username(fn_call.args[1])
       IN  fn_result' = IF r.raises THEN Raised("ValueError")
                        ELSE Returned(r.value)
    /\ UNCHANGED fn_call
    /\ CallFrame

SanitizeNext ==
    \/ SanitizeUsername

(***************************************************************************)
(* Image references (.github/workflows/scripts/update_config_image.py and  *)
(* update_env_image_refs.py)                                               *)
(***************************************************************************)
MaxImageLen == 4

MaxTagLen == 2

ImageChars == {"a", "/", ":", "@"}

TagChars == {"v", "/", ":", "@"}

\* parts[-1] of s.split(sep)
LastPart(s, sep) == Split(s, sep)[Len(Split(s, sep))]

\* Any ':' counts as a tag, also the one of a registry port.
compute_full_image_any_colon(image_name, image_tag) ==
    IF "@" \in Range(image_name) THEN Returned(image_name)
    ELSE IF ":" \in Range(image_name) THEN Returned(image_name)
    ELSE IF image_tag = <<>> THEN Raised("SystemExit")
    ELSE Returned(image_name \o <<":">> \o image_tag)

\* update_config_image.py
compute_full_image(image_name, image_tag) ==
    IF "@" \in Range(image_name) THEN Returned(image_name)
    ELSE LET parts == Split(image_name, "/")
             last_segment == parts[Len(parts)]
         IN  IF ":" \in Range(last_segment) THEN Returned(image_name)
             ELSE IF image_tag = <<>> THEN Raised("SystemExit")
             ELSE Returned(image_name \o <<":">> \o image_tag)

\* update_env_image_refs.py
env_compute_full_image(image_name, image_tag) ==
    IF "@" \in Range(image_name) THEN Returned(image_name)
    ELSE LET last_segment == LastPart(image_name, "/")
         IN  IF ":" \in Range(last_segment) THEN Returned(image_name)
             ELSE IF image_tag = <<>> THEN Raised("SystemExit")
             ELSE Returned(image_name \o <<":">> \o image_tag)

\* The last segment is returned whole, tag included.
strip_digest_only(image_name) ==
    IF "@" \in Range(image_name) THEN Split(image_name, "@")[1]
    ELSE image_name

strip_tag_or_digest(image_name) ==
    IF "@" \in Range(image_name)
    THEN \* base, _digest = image_name.split("@", 1)
         Split(image_name, "@")[1]
    ELSE LET parts == Split(image_name, "/")
             last == parts[Len(parts)]
             stripped == IF ":" \in Range(last) THEN Split(last, ":")[1]
                         ELSE last
         IN  Join([parts EXCEPT ![Len(parts)] = stripped], "/")

\* The references of the docstrings and of the spec's examples.
DocumentedImages ==
    {<<<<"r", "e", "g", "i", "s", "t", "r", "y", ":", "5", "0", "0", "0", "/", "a", "p", "p">>, <<"v", "1">>>>,
     <<<<"g", "h", "c", "r", ".", "i", "o", "/", "o", "r", "g", "/", "a", "p", "p", ":", "t", "a", "g">>, <<>>>>,
     <<<<"r", "e", "g", "i", "s", "t", "r", "y", ":", "5", "0", "0", "0", "/", "a", "p", "p", "@", "s", "h", "a", "2", "5", "6", ":", "a", "b", "c">>, <<>>>>}

ImageInit ==
    /\ \E fn \in {"update_config_image.compute_full_image",
                  "update_env_image_refs.compute_full_image",
                  "strip_tag_or_digest",
                  "patch_env.base_image"} :
          fn_call \in Calls(fn,
              (SeqsUpTo(ImageChars, MaxImageLen)
                   \X SeqsUpTo(TagChars, MaxTagLen))
              \cup DocumentedImages)
    /\ fn_result = Pending
    /\ ConfigPark
    /\ EnvPark

ImageCall(fn) ==
    /\ fn_call.fn = fn
    /\ fn_result.state = "pending"
    /\ UNCHANGED fn_call
    /\ CallFrame

ConfigComputeFullImage ==
    /\ ImageCall("update_config_image.compute_full_image")
    /\ fn_result' = compute_full_image(fn_call.args[1], fn_call.args[2])

EnvComputeFullImage ==
    /\ ImageCall("update_env_image_refs.compute_full_image")
    /\ fn_result' = env_compute_full_image(fn_call.args[1], fn_call.args[2])

\* strip_tag_or_digest(image_name) on the first argument alone.
StripTagOrDigest ==
    /\ ImageCall("strip_tag_or_digest")
    /\ fn_result' = Returned(strip_tag_or_digest(fn_call.args[1]))

\* patch_env: full_image = compute_full_image(image_name, image_tag), then
\* base_image = strip_tag_or_digest(full_image).
PatchEnvBaseImage ==
    /\ ImageCall("patch_env.base_image")
    /\ LET full_image ==
               env_compute_full_image(fn_call.args[1], fn_call.args[2])
       IN  fn_result' =
               IF full_image.state = "raised" THEN full_image
               ELSE Returned(strip_tag_or_digest(full_image.value))

ImageNext ==
    \/ ConfigComputeFullImage
    \/ EnvComputeFullImage
    \/ StripTagOrDigest
    \/ PatchEnvBaseImage

(***************************************************************************)
(* update_config.py and update_config_image.py: load config.yml, change    *)
(* the mapping, write it back                                              *)
(***************************************************************************)
\* bool(v)
Truthy(v) ==
    CASE v.type = "dict" -> DOMAIN v.items # {}
      [] v.type = "none" -> FALSE
      [] v.type = "int" -> v.scalar # <<"0">>
      [] v.type = "bool" -> v.scalar = <<"t">>
      [] OTHER -> v.scalar # <<>>

ConfigKeys == {"a", "b"}

InnerKeys == {"x", "y"}

MergeLeaves == {PyScalar("int", <<"1">>), PyScalar("str", <<"s">>)}

Mappings(keys, values) == UNION {[K -> values] : K \in SUBSET keys}

InnerDicts == {PyDict(f) : f \in Mappings(InnerKeys, MergeLeaves)}

\* Mappings of up to two levels.
Configs ==
    {PyDict(f) : f \in Mappings(ConfigKeys, MergeLeaves \cup InnerDicts)}

\* Roots YAML can give that are not mappings: null, lists, strings,
\* numbers and booleans, the falsy one of each type included.
NonMappingRoots ==
    {PyNone,
     PyScalar("list", <<>>), PyScalar("list", <<"x">>),
     PyScalar("str", <<>>), PyScalar("str", <<"s">>),
     PyScalar("int", <<"0">>), PyScalar("int", <<"1">>),
     PyScalar("bool", <<"f">>), PyScalar("bool", <<"t">>)}

\* A file yaml.safe_load cannot parse.
Unparsable == PyScalar("invalid", <<>>)

SERVICE_TO_CONFIG_KEY ==
    [openedx |-> "DOCKER_IMAGE_OPENEDX", mfe |-> "MFE_DOCKER_IMAGE"]

Services == {"openedx", "mfe", "lms"}

resolve_config_key(service) ==
    IF service \in DOMAIN SERVICE_TO_CONFIG_KEY
    THEN Returned(SERVICE_TO_CONFIG_KEY[service])
    ELSE Raised("SystemExit")

\* The same function in both scripts.
load_yaml(file) ==
    IF file = Absent THEN Returned(PyDict(<<>>))
    ELSE IF file = Unparsable THEN Raised("YAMLError")
    ELSE LET data == IF Truthy(file) THEN file ELSE PyDict(<<>>)
         IN  IF data.type # "dict" THEN Raised("SystemExit")
             ELSE Returned(data)

\* merge_dicts(dict1, dict2) changes dict1 in place: the value is dict1
\* after the call.  dict2 is a mapping; dict1 is whatever the caller found
\* under the key.  With a dict1 that is no mapping every path of the loop
\* body ends in TypeError ('in' on a number, item assignment or a string
\* index on a string, a list or None); with an empty dict2 the body never
\* runs.
RECURSIVE merge_dicts(_, _)
merge_dicts(dict1, dict2) ==
    IF DOMAIN dict2.items = {} THEN Returned(dict1)
    ELSE IF dict1.type # "dict" THEN Raised("TypeError")
    ELSE LET recursed == {key \in DOMAIN dict2.items :
                             /\ dict2.items[key].type = "dict"
                             /\ key \in DOMAIN dict1.items}
             sub(key) == merge_dicts(dict1.items[key], dict2.items[key])
         IN  IF \E key \in recursed : sub(key).state = "raised"
             THEN Raised("TypeError")
             ELSE Returned(PyDict(
                      [key \in DOMAIN dict1.items \cup DOMAIN dict2.items |->
                          IF key \in recursed THEN sub(key).value
                          ELSE IF key \in DOMAIN dict2.items
                               THEN dict2.items[key]
                               ELSE dict1.items[key]]))

ConfigImages ==
    {<<<<"r", "e", "p", "o", "/", "a", "p", "p">>, <<"v", "1">>>>, <<<<"r", "e", "p", "o", "/", "a", "p", "p">>, <<>>>>, <<<<"r", "e", "p", "o", "/", "a", "p", "p", ":", "v", "0">>, <<"v", "1">>>>}

ConfigFiles == {Absent, Unparsable} \cup NonMappingRoots \cup Configs

ConfigInit ==
    /\ config_file \in ConfigFiles
    /\ \/ /\ fn_call \in Calls("update_config.main",
                               {<<new_config>> : new_config \in Configs})
          /\ cfg_pc = "load"
       \/ /\ fn_call \in Calls("update_config_image.main",
                               {<<service>> \o image :
                                    service \in Services,
                                    image \in ConfigImages})
          /\ cfg_pc = "resolve"
    /\ fn_result = Pending
    /\ cfg_data = PyNone
    /\ cfg_saved = <<>>
    /\ EnvPark

ConfigExit(result) ==
    /\ fn_result' = result
    /\ cfg_pc' = "exited"
    /\ UNCHANGED <<fn_call, config_file, cfg_data, cfg_saved>>
    /\ ScriptFrame

ConfigGoto(step, data) ==
    /\ cfg_pc' = step
    /\ cfg_data' = data
    /\ UNCHANGED <<fn_call, fn_result, config_file, cfg_saved>>
    /\ ScriptFrame

\* update_config_image.main: compute_full_image, then resolve_config_key.
ResolveImage ==
    /\ cfg_pc = "resolve"
    /\ LET full_image == compute_full_image(fn_call.args[2], fn_call.args[3])
           key == resolve_config_key(fn_call.args[1])
       IN  IF full_image.state = "raised" THEN ConfigExit(full_image)
           ELSE IF key.state = "raised" THEN ConfigExit(key)
           ELSE ConfigGoto("load", cfg_data)

LoadYaml ==
    /\ cfg_pc = "load"
    /\ LET data == load_yaml(config_file)
       IN  IF data.state = "raised" THEN ConfigExit(data)
           ELSE ConfigGoto("update", data.value)

\* update_config.main: merge_dicts(data, json.loads(args.new_config))
MergeDicts ==
    /\ cfg_pc = "update"
    /\ fn_call.fn = "update_config.main"
    /\ LET merged == merge_dicts(cfg_data, fn_call.args[1])
       IN  IF merged.state = "raised" THEN ConfigExit(merged)
           ELSE ConfigGoto("save", merged.value)

\* update_config_image.main: data[key] = full_image
SetImageKey ==
    /\ cfg_pc = "update"
    /\ fn_call.fn = "update_config_image.main"
    /\ LET full_image == compute_full_image(fn_call.args[2], fn_call.args[3])
           key == resolve_config_key(fn_call.args[1]).value
       IN  ConfigGoto("save",
               PyDict([k \in DOMAIN cfg_data.items \cup {key} |->
                          IF k = key THEN PyScalar("str", full_image.value)
                          ELSE cfg_data.items[k]]))

save_yaml ==
    /\ cfg_pc = "save"
    /\ config_file' = cfg_data
    /\ cfg_saved' = Append(cfg_saved, cfg_data)
    /\ cfg_pc' = "exited"
    /\ fn_result' = Returned(PyNone)
    /\ UNCHANGED <<fn_call, cfg_data>>
    /\ ScriptFrame

ConfigNext ==
    \/ ResolveImage
    \/ LoadYaml
    \/ MergeDicts
    \/ SetImageKey
    \/ save_yaml

(***************************************************************************)
(* patch_env and patch_file (update_env_image_refs.py).  A file is the     *)
(* list of lines read_text().splitlines() gives; the files are kept in     *)
(* the order of their paths, the order iter_env_yaml_files sorts them in.  *)
(***************************************************************************)
MaxRefLen == 4

\* \s
WhiteSpace == {" ", "\t"}

ImageKey == <<"i", "m", "a", "g", "e", ":">>

\* The first index from i on that holds no character of chars (Len + 1 if
\* there is none): where a greedy [chars]* starting at i ends.
SkipWhile(s, i, chars) ==
    CHOOSE j \in i..(Len(s) + 1) :
        /\ \A k \in i..(j - 1) : s[k] \in chars
        /\ j <= Len(s) => s[j] \notin chars

\* The first index from i on that holds a character of chars: where a
\* greedy [^chars]* starting at i ends.
SkipUntil(s, i, chars) ==
    CHOOSE j \in i..(Len(s) + 1) :
        /\ \A k \in i..(j - 1) : s[k] \notin chars
        /\ j <= Len(s) => s[j] \in chars

StartsAt(s, i, pat) ==
    i + Len(pat) - 1 <= Len(s) /\ SubSeq(s, i, i + Len(pat) - 1) = pat

\* pattern.match(line) for
\*   ^(\s*image:\s*)(<base_image>(?:[:@][^\s#]+)?)(\s*(#.*)?)$
\* with a base_image that starts with no white space: every group is
\* greedy and no shorter choice lets the rest match, so the groups are
\* found left to right.
image_pattern_match(line, base_image) ==
    LET key == SkipWhile(line, 1, WhiteSpace)
        image == SkipWhile(line, key + Len(ImageKey), WhiteSpace)
        after_base == image + Len(base_image)
        tag_end == SkipUntil(line, after_base + 1, WhiteSpace \cup {"#"})
        has_tag == /\ after_base <= Len(line)
                   /\ line[after_base] \in {":", "@"}
                   /\ tag_end > after_base + 1
        suffix == IF has_tag THEN tag_end ELSE after_base
        comment == SkipWhile(line, suffix, WhiteSpace)
    IN  IF /\ StartsAt(line, key, ImageKey)
           /\ StartsAt(line, image, base_image)
           /\ comment <= Len(line) => line[comment] = "#"
        THEN [matched |-> TRUE,
              prefix |-> SubSeq(line, 1, image - 1),
              suffix |-> SubSeq(line, suffix, Len(line))]
        ELSE [matched |-> FALSE, prefix |-> <<>>, suffix |-> <<>>]

\* new_lines and changed of patch_file
patch_file(content, base_image, full_image) ==
    [new_lines |->
         [i \in DOMAIN content |->
             LET match == image_pattern_match(content[i], base_image)
             IN  IF match.matched
                 THEN match.prefix \o full_image \o match.suffix
                 ELSE content[i]],
     changed |->
         \E i \in DOMAIN content :
             image_pattern_match(content[i], base_image).matched]

\* *.yml and *.yaml
IsYaml(file) == file.ext \in {"yml", "yaml"}

\* Index of the first YAML file from i on (Len + 1 if there is none).
NextYaml(files, i) ==
    CHOOSE j \in i..(Len(files) + 1) :
        /\ \A k \in i..(j - 1) : ~IsYaml(files[k])
        /\ j <= Len(files) => IsYaml(files[j])

LineHeads ==
    {<<"i", "m", "a", "g", "e", ":", " ">>,
     <<" ", " ", "i", "m", "a", "g", "e", ":">>,
     <<"-", " ", "i", "m", "a", "g", "e", ":", " ">>,
     <<"i", "m", "a", "g", "e", "s", ":", " ">>}

RefChars == {"a", "b", ":", "@", "#", " ", "/"}

AllLines ==
    {head \o rest : head \in LineHeads,
                    rest \in SeqsUpTo(RefChars, MaxRefLen)}

SampleLines ==
    {<<"i", "m", "a", "g", "e", ":", " ", "r", "e", "p", "o", "/", "a", "p", "p", ":", "v", "1", " ", " ", "#", " ", "c", "o", "m", "m", "e", "n", "t">>,
     <<" ", " ", "i", "m", "a", "g", "e", ":", " ", "r", "e", "p", "o", "/", "a", "p", "p">>,
     <<"i", "m", "a", "g", "e", ":", " ", "r", "e", "p", "o", "/", "a", "p", "p", "2", ":", "v", "1">>,
     <<"i", "m", "a", "g", "e", ":", " ", "m", "y", "/", "r", "e", "p", "o", "/", "a", "p", "p", ":", "v", "1">>,
     <<"n", "a", "m", "e", ":", " ", "r", "e", "p", "o", "/", "a", "p", "p">>,
     <<"i", "m", "a", "g", "e", ":", " ", "a", ":", "1">>}

EnvFile(path, ext, lines) == [path |-> path, ext |-> ext, lines |-> lines]

\* One YAML file of one line, or three files in two directories.
EnvDirs ==
    {<<EnvFile("a.yml", "yml", <<line>>)>> :
         line \in AllLines \cup SampleLines}
    \cup {<<EnvFile("a.yml", "yml", first),
            EnvFile("b/c.yaml", "yaml", <<second>>),
            EnvFile("d.txt", "txt", <<third>>)>> :
              first \in SeqsUpTo(SampleLines, 2),
              second \in SampleLines, third \in SampleLines}

\* image_name and image_tag: untagged with a tag, tagged, with a digest,
\* untagged without a tag, and the scenario of the spec.
EnvTargets ==
    {<<<<"a">>, <<"v">>>>, <<<<"a", ":", "b">>, <<>>>>,
     <<<<"a", "@", "b">>, <<>>>>, <<<<"a">>, <<>>>>,
     <<<<"r", "e", "p", "o", "/", "a", "p", "p">>, <<"v", "2">>>>}

EnvInit ==
    /\ fn_call \in Calls("patch_env", EnvTargets)
    /\ fn_result = Pending
    /\ \/ env_dir = "dir" /\ env_files \in EnvDirs
       \/ env_dir \in {"missing", "file"} /\ env_files = <<>>
    /\ env_orig = env_files
    /\ env_pos = 1
    /\ env_pc = "check"
    /\ changed_paths = <<>>
    /\ ConfigPark

full_image == env_compute_full_image(fn_call.args[1], fn_call.args[2])

base_image == strip_tag_or_digest(full_image.value)

EnvExit(result) ==
    /\ fn_result' = result
    /\ env_pc' = "exited"
    /\ UNCHANGED <<fn_call, env_dir, env_files, env_orig, env_pos,
                   changed_paths>>
    /\ EnvFrame

\* env_dir.exists(), env_dir.is_dir(), compute_full_image
PatchEnvCheck ==
    /\ env_pc = "check"
    /\ IF env_dir # "dir" THEN EnvExit(Raised("SystemExit"))
       ELSE IF full_image.state = "raised" THEN EnvExit(full_image)
       ELSE /\ env_pc' = "patch"
            /\ env_pos' = NextYaml(env_files, 1)
            /\ UNCHANGED <<fn_call, fn_result, env_dir, env_files, env_orig,
                           changed_paths>>
            /\ EnvFrame

\* One turn of the loop of patch_env: patch_file on the next YAML file,
\* which is written only when a line matched.
PatchFile ==
    /\ env_pc = "patch"
    /\ env_pos <= Len(env_files)
    /\ LET path == env_files[env_pos]
           patched == patch_file(path.lines, base_image, full_image.value)
       IN  /\ env_files' =
                 IF patched.changed
                 THEN [env_files EXCEPT ![env_pos].lines = patched.new_lines]
                 ELSE env_files
           /\ changed_paths' =
                 IF patched.changed THEN Append(changed_paths, path.path)
                 ELSE changed_paths
    /\ env_pos' = NextYaml(env_files, env_pos + 1)
    /\ UNCHANGED <<fn_call, fn_result, env_dir, env_orig, env_pc>>
    /\ EnvFrame

\* return len(changed_paths), changed_paths
PatchEnvReturn ==
    /\ env_pc = "patch"
    /\ env_pos > Len(env_files)
    /\ EnvExit(Returned([count |-> Len(changed_paths),
                         paths |-> changed_paths]))

EnvNext ==
    \/ PatchEnvCheck
    \/ PatchFile
    \/ PatchEnvReturn

(***************************************************************************)
(* render_manifest (phd/kubernetes.py): the Jinja2 rendering of templates  *)
(* whose only Jinja2 syntax is '{{ NAME }}' with one-letter names; the     *)
(* default Undefined renders as the empty string.                          *)
(***************************************************************************)
MaxParts == 3

\* Index of the first occurrence of pat in s from i on, 0 if there is none.
Find(s, pat, i) ==
    IF \E k \in i..Len(s) : StartsAt(s, k, pat)
    THEN CHOOSE k \in i..Len(s) :
             StartsAt(s, k, pat) /\ \A x \in i..(k - 1) : ~StartsAt(s, x, pat)
    ELSE 0

\* jinja2.Undefined: str() of an undefined variable is ''.
Undefined == <<>>

\* The text Jinja2 renders: up to the next '{{' as it is, the expression
\* up to the next '}}' looked up by name, then the rest the same way.  A
\* '{{' that is never closed, or that holds anything but a name, is a
\* TemplateSyntaxError.
RECURSIVE jinja_render(_, _, _)
jinja_render(text, variables, keep_undefined) ==
    LET open == Find(text, <<"{", "{">>, 1)
        close == Find(text, <<"}", "}">>, open + 2)
        name == Strip(SubSeq(text, open + 2, close - 1), {" "})
        rest == jinja_render(SubSeq(text, close + 2, Len(text)), variables,
                             keep_undefined)
    IN  IF open = 0 THEN Returned(text)
        ELSE IF close = 0 THEN Raised("TemplateSyntaxError")
        ELSE IF Len(name) # 1 \/ name[1] \notin Range(UpperCase)
             THEN Raised("TemplateSyntaxError")
        ELSE IF rest.state = "raised" THEN rest
        ELSE Returned(SubSeq(text, 1, open - 1)
                          \o (IF name[1] \in DOMAIN variables
                              THEN variables[name[1]]
                              ELSE IF keep_undefined
                                   THEN SubSeq(text, open, close + 1)
                                   ELSE Undefined)
                          \o rest.value)


\* An undefined variable leaves its placeholder in the text.
render_manifest_keeping_undefined(manifest, variables) ==
    LET rendered == jinja_render(manifest, variables, TRUE)
    IN  IF rendered.state = "raised" THEN Raised("ManifestError")
        ELSE rendered

\* try: return Template(manifest).render(variables as keywords)
\* except Exception: raise ManifestError
render_manifest(manifest, variables) ==
    LET rendered == jinja_render(manifest, variables, FALSE)
    IN  IF rendered.state = "raised" THEN Raised("ManifestError")
        ELSE rendered

\* The pieces a template is put together from: text without braces, a
\* placeholder with or without spaces around its name, an unclosed '{{'.
TextPart(text) == [kind |-> "text", name |-> "", text |-> text]

VarPart(name, text) == [kind |-> "var", name |-> name, text |-> text]

TemplateParts ==
    {TextPart(<<"n", ":", " ">>), TextPart(<<"-", "x">>),
     VarPart("A", <<"{", "{", " ", "A", " ", "}", "}">>), VarPart("B", <<"{", "{", " ", "B", " ", "}", "}">>),
     VarPart("A", <<"{", "{", "A", "}", "}">>),
     [kind |-> "unclosed", name |-> "", text |-> <<"{", "{", " ", "A">>]}

RECURSIVE Concat(_)
Concat(texts) ==
    IF texts = <<>> THEN <<>> ELSE texts[1] \o Concat(Tail(texts))

TemplateText(parts) == Concat([i \in DOMAIN parts |-> parts[i].text])

\* The values the commands pass: a sanitized user name, a role.
RenderValues == {<<"u">>, <<"r", ".", "o">>}

\* The variables mappings: any of A and B defined, none included.
RenderVariables == Mappings({"A", "B"}, RenderValues)

\* render_manifest called by itself, or by apply_manifest on its manifest.
RenderInit ==
    /\ \E fn \in {"render_manifest", "apply_manifest"} :
          fn_call \in Calls(fn, SeqsUpTo(TemplateParts, MaxParts)
                                    \X RenderVariables)
    /\ fn_result = Pending
    /\ ConfigPark
    /\ EnvPark

RenderManifest ==
    /\ fn_call.fn = "render_manifest"
    /\ fn_result.state = "pending"
    /\ fn_result' = render_manifest(TemplateText(fn_call.args[1]),
                                    fn_call.args[2])
    /\ UNCHANGED fn_call
    /\ CallFrame

\* apply_manifest: if variables: yaml_manifest = self.render_manifest(...).
\* The value is the manifest that goes on to yaml.safe_load_all.
ApplyManifestRender ==
    /\ fn_call.fn = "apply_manifest"
    /\ fn_result.state = "pending"
    /\ fn_result' =
           IF DOMAIN fn_call.args[2] # {}
           THEN render_manifest(TemplateText(fn_call.args[1]),
                                fn_call.args[2])
           ELSE Returned(TemplateText(fn_call.args[1]))
    /\ UNCHANGED fn_call
    /\ CallFrame

RenderNext ==
    \/ RenderManifest
    \/ ApplyManifestRender

(***************************************************************************)
(* apply_manifest_from_url (phd/kubernetes.py): requests.get,              *)
(* raise_for_status, then apply_manifest on the text of the response       *)
(***************************************************************************)
\* How requests.get(url, timeout=30) ends: an exception (no connection,
\* no answer within the timeout) or a response of some status class.  A
\* redirect with a Location is followed, so "3xx" is a response requests
\* does not follow (300, 304, no Location).
NetworkErrors == {"ConnectionError", "Timeout"}

StatusClasses == {"2xx", "3xx", "4xx", "5xx"}

\* Response.raise_for_status raises HTTPError for a status from 400 to 599.
raise_for_status(status) == status \in {"4xx", "5xx"}

\* Every exception of the try block becomes ManifestError.
get_manifest_from_url(outcome) ==
    IF outcome \in NetworkErrors THEN Raised("ManifestError")
    ELSE IF raise_for_status(outcome) THEN Raised("ManifestError")
    ELSE Returned(outcome)

\* documents: what yaml.safe_load_all yields from the body of the response.
ApplyUrlInit ==
    /\ documents \in SeqsUpTo(Docs, MaxDocs)
    /\ doc_pos = 1
    /\ am_state = "fetching"
    /\ am_exc = NoExc
    /\ kubectl_calls = <<>>
    /\ applied = <<>>
    /\ fn_call = [fn |-> "__get_manifest_from_url", args |-> <<>>]
    /\ fn_result = Pending
    /\ ConfigPark
    /\ EnvPark

\* manifest = self.__get_manifest_from_url(url); on success apply_manifest
\* starts on the text.
GetManifestFromUrl ==
    /\ am_state = "fetching"
    /\ \E outcome \in NetworkErrors \cup StatusClasses :
          /\ fn_call' = [fn_call EXCEPT !.args = <<outcome>>]
          /\ fn_result' = get_manifest_from_url(outcome)
          /\ IF get_manifest_from_url(outcome).state = "raised"
             THEN am_state' = "raised" /\ am_exc' = Exc("ManifestError")
             ELSE am_state' = "running" /\ am_exc' = am_exc
    /\ UNCHANGED <<documents, doc_pos, kubectl_calls, applied>>
    /\ UNCHANGED <<clusterVars, createVars, deleteVars, userVars, policyVars,
                   waitVars, configVars, envVars, procVars>>

ApplyUrlNext ==
    \/ GetManifestFromUrl
    \/ SkipEmptyDocument
    \/ YamlError
    \/ MalformedDocument
    \/ ApplyDocument
    \/ ApplyReturn

(***************************************************************************)
(* phd/kubeconfig.py: setup_kubeconfig and the two sources it reads        *)
(*                                                                         *)
(* A text is a sequence of the pieces that the checks of the code tell     *)
(* apart: the apiVersion line, the kind line, a Terraform warning, an ANSI *)
(* escape and white space.                                                 *)
(***************************************************************************)
MaxKubeLen == 3

ApiVersion == "apiVersion: v1"

KindConfig == "kind: Config"

Warning == "Warning:"

AnsiEscape == "ESC["

KubeSpace == "\n"

KubePieces == {ApiVersion, KindConfig, Warning, AnsiEscape, KubeSpace}

KubeTexts == SeqsUpTo(KubePieces, MaxKubeLen)

\* None and "" are both falsy, and the code tests the content only with
\* `if not kubeconfig_content`.
NoContent == <<>>

\* get_kubeconfig_from_terraform: command is the command shutil.which
\* found, run is how subprocess.run ended and stdout what it printed.
get_kubeconfig_from_terraform(command, infrastructure_dir, run, stdout) ==
    LET kubeconfig == Strip(stdout, {KubeSpace}) IN
    IF command = "none" THEN Returned(NoContent)
    ELSE IF ~infrastructure_dir THEN Returned(NoContent)
    ELSE IF run = "SubprocessError" THEN Raised("ConfigurationError")
    ELSE IF run = "nonzero" THEN Returned(NoContent)
    ELSE IF kubeconfig = <<>> THEN Returned(NoContent)
    ELSE IF \/ ~(/\ kubeconfig[1] = ApiVersion
                 /\ Contains(kubeconfig, <<KindConfig>>))
            \/ kubeconfig[1] = AnsiEscape
            \/ Contains(kubeconfig, <<Warning>>)
         THEN Returned(NoContent)
    ELSE Returned(kubeconfig)

\* The value of KUBECONFIG_CONTENT: the text itself, or its base64
\* encoding (which holds no white space and none of ':', '[' and ' ').
EnvValues == [base64 : BOOLEAN, text : KubeTexts]

\* get_kubeconfig_from_env: a value that decodes as base64 is returned
\* decoded, any other one as it is, stripped.  No text of KubeTexts is
\* itself base64: each piece holds a character outside that alphabet.
get_kubeconfig_from_env(value) ==
    IF value.base64 THEN value.text
    ELSE Strip(value.text, {KubeSpace})

\* A file of ~/.kube: its content and its permission bits.
NoFile == [exists |-> FALSE, content |-> <<>>, mode |-> "none"]

File(content, mode) == [exists |-> TRUE, content |-> content, mode |-> mode]

OldKubeconfig == <<KindConfig, ApiVersion>>

\* ~/.kube/config before the call.
KubeconfigsBefore ==
    {NoFile, File(OldKubeconfig, "0600"), File(OldKubeconfig, "0644")}

KubeInit ==
    /\ kube \in [pc : {"terraform"},
                 command : {"tofu", "terraform", "none"},
                 infrastructure_dir : BOOLEAN,
                 terraform : {NoContent},
                 env : {NoContent},
                 kubeconfig_content : {NoContent},
                 kubeconfig_path : KubeconfigsBefore,
                 before : KubeconfigsBefore,
                 tmp_path : {NoFile},
                 steps : {<<>>},
                 exc : {"none"}]
    /\ kube.before = kube.kubeconfig_path

KubeStep(step, changes) ==
    kube' = [changes EXCEPT !.steps = Append(kube.steps, step)]

KubeRaise(step, exc, changes) ==
    KubeStep(step, [changes EXCEPT !.pc = "raised", !.exc = exc])

\* The environment variable is read whatever Terraform gave.
after_terraform_always_env(content) == "env"

\* if not kubeconfig_content: kubeconfig_content = get_kubeconfig_from_env()
after_terraform(content) == IF content = NoContent THEN "env" ELSE "decide"

\* kubeconfig_content = get_kubeconfig_from_terraform(terraform_dir)
GetKubeconfigFromTerraform ==
    /\ kube.pc = "terraform"
    /\ \E run \in {"SubprocessError", "nonzero", "zero"}, stdout \in KubeTexts :
          LET r == get_kubeconfig_from_terraform(
                       kube.command, kube.infrastructure_dir, run, stdout) IN
          IF r.state = "raised"
          THEN KubeRaise("terraform", r.exc, kube)
          ELSE KubeStep("terraform",
                        [kube EXCEPT !.terraform = r.value,
                                     !.kubeconfig_content = r.value,
                                     !.pc = after_terraform(r.value)])
    /\ KubeFrame

GetKubeconfigFromEnv ==
    /\ kube.pc = "env"
    /\ \E value \in EnvValues :
          KubeStep("env",
                   [kube EXCEPT !.env = get_kubeconfig_from_env(value),
                                !.kubeconfig_content =
                                    get_kubeconfig_from_env(value),
                                !.pc = "decide"])
    /\ KubeFrame

\* if not kubeconfig_content: return when the file exists, raise otherwise.
NoKubeconfigAvailable ==
    /\ kube.pc = "decide"
    /\ kube.kubeconfig_content = NoContent
    /\ IF kube.kubeconfig_path.exists
       THEN KubeStep("use existing", [kube EXCEPT !.pc = "returned"])
       ELSE KubeRaise("none available", "ConfigurationError", kube)
    /\ KubeFrame

\* kubeconfig_path.parent.mkdir(parents=True, exist_ok=True)
Mkdir ==
    /\ kube.pc = "decide"
    /\ kube.kubeconfig_content # NoContent
    /\ \/ KubeStep("mkdir", [kube EXCEPT !.pc = "tmpfile"])
       \/ KubeRaise("mkdir", "ConfigurationError", kube)
    /\ KubeFrame

\* tempfile.NamedTemporaryFile(mode="w", delete=False, dir=...): mkstemp
\* creates the file empty, with mode 0600.
NamedTemporaryFile ==
    /\ kube.pc = "tmpfile"
    /\ \/ KubeStep("tmpfile", [kube EXCEPT !.tmp_path = File(<<>>, "0600"),
                                           !.pc = "write"])
       \/ KubeRaise("tmpfile", "ConfigurationError", kube)
    /\ KubeFrame

\* The content is written straight to ~/.kube/config.
written_file_is_target == "kubeconfig_path"

\* The file tmp_file.write(kubeconfig_content) writes to.
written_file == "tmp_path"

\* The files after the first k pieces of the text reached the disk.
write(files, text, k) ==
    IF written_file = "tmp_path"
    THEN [files EXCEPT !.tmp_path.content = SubSeq(text, 1, k)]
    ELSE [files EXCEPT !.kubeconfig_path =
                           File(SubSeq(text, 1, k), files.tmp_path.mode)]

\* tmp_file.write(kubeconfig_content) and the close at the end of the
\* with block: the content reaches the file, or a part of it does and the
\* operating system reports an error.
TmpFileWrite ==
    /\ kube.pc = "write"
    /\ LET text == kube.kubeconfig_content IN
       \/ KubeStep("write", [write(kube, text, Len(text)) EXCEPT !.pc = "chmod"])
       \/ \E k \in 0..(Len(text) - 1) :
             KubeRaise("write", "ConfigurationError", write(kube, text, k))
    /\ KubeFrame

\* tmp_path.chmod(0o600)
Chmod ==
    /\ kube.pc = "chmod"
    /\ \/ KubeStep("chmod", [kube EXCEPT !.tmp_path.mode = "0600",
                                         !.pc = "replace"])
       \/ KubeRaise("chmod", "ConfigurationError", kube)
    /\ KubeFrame

\* tmp_path.replace(kubeconfig_path): rename(2), one step.
Replace ==
    /\ kube.pc = "replace"
    /\ \/ KubeStep("replace", [kube EXCEPT !.kubeconfig_path = kube.tmp_path,
                                           !.tmp_path = NoFile,
                                           !.pc = "returned"])
       \/ KubeRaise("replace", "ConfigurationError", kube)
    /\ KubeFrame

KubeNext ==
    \/ GetKubeconfigFromTerraform
    \/ GetKubeconfigFromEnv
    \/ NoKubeconfigAvailable
    \/ Mkdir
    \/ NamedTemporaryFile
    \/ TmpFileWrite
    \/ Chmod
    \/ Replace

(***************************************************************************)
(* cli/argo_install.py: main                                              *)
(***************************************************************************)
\* What install_argocd does, in order.
ARGOCD_STEPS ==
    <<"resolve password", "create ArgoCD namespace",
      "install ArgoCD core components", "ensure base ArgoCD configmap",
      "configure ArgoCD RBAC roles", "configure ArgoCD ingress",
      "configure ArgoCD admin password">>

\* What install_argo_workflows does, in order, the six templates last.
WORKFLOWS_STEPS ==
    <<"create Argo Workflows namespace",
      "install Argo Workflows core components",
      "create workflow-executor token",
      "phd-mysql-provision", "phd-mongodb-provision", "phd-storage-provision",
      "phd-mysql-deprovision", "phd-mongodb-deprovision",
      "phd-storage-deprovision">>

InstallSteps(component) ==
    IF component = "argocd" THEN ARGOCD_STEPS ELSE WORKFLOWS_STEPS

\* The exceptions main names, and any other one.
INSTALL_ERRORS ==
    {"CommandNotFoundError", "ConfigurationError", "KubernetesError",
     "ManifestError", "PasswordError", "Exception"}

\* install_both = not args.argocd_only and not args.workflows_only
install_both(args) == ~args.argocd_only /\ ~args.workflows_only

\* The two `if` of main.
installs(component, args) ==
    \/ install_both(args)
    \/ IF component = "argocd" THEN args.argocd_only ELSE args.workflows_only

\* Where main goes after get_config and after install_argocd.
after_get_config(args) ==
    IF installs("argocd", args) THEN "argocd"
    ELSE IF installs("workflows", args) THEN "workflows"
    ELSE "exited"

after_install_argocd(args) ==
    IF installs("workflows", args) THEN "workflows" ELSE "exited"

\* parser.parse_args(): the two flags are independent store_true options.
InstallerInit ==
    installer \in [pc : {"setup_kubeconfig"},
                   args : [argocd_only : BOOLEAN, workflows_only : BOOLEAN],
                   pos : {1},
                   done : {<<>>},
                   installed : {{}},
                   exc : {"none"},
                   exit : {"none"}]

\* setup_kubeconfig() is called outside the try block.
InstallSetupKubeconfig ==
    /\ installer.pc = "setup_kubeconfig"
    /\ \/ installer' = [installer EXCEPT !.pc = "get_config"]
       \/ installer' = [installer EXCEPT !.pc = "exited",
                                         !.exc = "ConfigurationError",
                                         !.exit = "traceback"]
    /\ InstallerFrame

\* exit_with_error: sys.exit(1)
exit_with_error(state, exc) ==
    [state EXCEPT !.pc = "exited", !.exc = exc, !.exit = "1"]

InstallGetConfig ==
    /\ installer.pc = "get_config"
    /\ \/ installer' = [installer EXCEPT !.pc = after_get_config(installer.args)]
       \/ installer' = exit_with_error(installer, "ConfigurationError")
    /\ InstallerFrame

\* One operation of install_argocd or install_argo_workflows: it returns,
\* or it raises and main exits with status 1.
InstallStep ==
    /\ installer.pc \in {"argocd", "workflows"}
    /\ LET component == installer.pc
           steps == InstallSteps(component)
           entry == [component |-> component, step |-> steps[installer.pos]]
           last == installer.pos = Len(steps)
       IN
       \/ installer' =
             [installer EXCEPT
                 !.done = Append(@, entry),
                 !.pos = IF last THEN 1 ELSE @ + 1,
                 !.installed = IF last THEN @ \cup {component} ELSE @,
                 !.pc = IF ~last THEN @
                        ELSE IF component = "argocd"
                             THEN after_install_argocd(installer.args)
                             ELSE "exited",
                 !.exit = IF last /\ (component = "workflows"
                                      \/ after_install_argocd(installer.args)
                                            = "exited")
                          THEN "0" ELSE @]
       \/ \E exc \in INSTALL_ERRORS :
             installer' = exit_with_error(
                 [installer EXCEPT !.done = Append(@, entry)], exc)
    /\ InstallerFrame

InstallerNext ==
    \/ InstallSetupKubeconfig
    \/ InstallGetConfig
    \/ InstallStep

(***************************************************************************)
(* Two invocations of _update_rbac_policy on the same ConfigMap            *)
(* (cli/argo_user_create.py, cli/argo_user_update.py), each a read of the  *)
(* ConfigMap followed by a patch of policy.csv (KubernetesClient).         *)
(***************************************************************************)
Invocations == {1, 2}

EditorSubjects == {<<"a">>, <<"b">>, <<"a", "b">>}

EditorPolicies == {<<>>, PolicyLine(<<"c">>, "admin")}

\* The ConfigMap as the API server holds it: policy.csv and a version
\* that every write increases (metadata.resourceVersion).
ConfigMapObject(text, version) == [policy |-> text, version |-> version]

\* The patch carries a resourceVersion and the server refuses a stale one.
patch_config_map_if_unchanged(config_map, read_version, data) ==
    IF read_version = config_map.version
    THEN ConfigMapObject(data, config_map.version + 1)
    ELSE config_map

\* patch_namespaced_config_map(name, namespace, body={"data": data}): the
\* body names no resourceVersion, the server merges it into the object
\* whatever its version.
patch_config_map(config_map, read_version, data) ==
    ConfigMapObject(data, config_map.version + 1)

EditorsInit ==
    /\ editors \in
          [pc : {"running"},
           config_map : {ConfigMapObject(p, 0) : p \in EditorPolicies},
           invocation :
              [Invocations ->
                  [pc : {"read"},
                   command : {"create", "update"},
                   subject : EditorSubjects,
                   role : {"admin", "readonly"},
                   read : {<<>>},
                   read_version : {0},
                   new_policy : {<<>>}]],
           writes : {<<>>}]
    /\ editors.invocation[1].subject # editors.invocation[2].subject

\* config_map = k8s_client.read_config_map(...) and the computation of
\* new_policy from what was read.
EditorRead(i) ==
    /\ editors.pc = "running"
    /\ editors.invocation[i].pc = "read"
    /\ LET me == editors.invocation[i] IN
       \/ editors' =
             [editors EXCEPT
                 !.invocation[i].pc = "patch",
                 !.invocation[i].read = editors.config_map.policy,
                 !.invocation[i].read_version = editors.config_map.version,
                 !.invocation[i].new_policy =
                     upsert_policy(editors.config_map.policy, me.subject,
                                   me.role)]
       \/ editors' = [editors EXCEPT !.invocation[i].pc = "raised"]
    /\ EditorsFrame

\* k8s_client.patch_config_map(..., data={"policy.csv": new_policy})
EditorPatch(i) ==
    /\ editors.pc = "running"
    /\ editors.invocation[i].pc = "patch"
    /\ LET me == editors.invocation[i]
           after == patch_config_map(editors.config_map, me.read_version,
                                     me.new_policy)
       IN
       \/ editors' =
             [editors EXCEPT
                 !.invocation[i].pc = "returned",
                 !.config_map = after,
                 !.writes = Append(@, [by |-> i,
                                       before |-> editors.config_map,
                                       after |-> after])]
       \/ editors' = [editors EXCEPT !.invocation[i].pc = "raised"]
    /\ EditorsFrame

EditorsNext == \E i \in Invocations : EditorRead(i) \/ EditorPatch(i)

(***************************************************************************)
(* Successive user commands on one cluster, every cluster call succeeding: *)
(* create_argo_user (cli/argo_user_create.py), update_argo_user_permissions*)
(* (cli/argo_user_update.py) and delete_argo_user, forced                  *)
(* (cli/argo_user_delete.py), each with the entries and policy lines it    *)
(* writes and the subjects it uses.                                        *)
(***************************************************************************)
MaxCalls == 2

\* An entry accounts.<name>[.<field>] of a ConfigMap or Secret; the value
\* is a text and, for a password hash or a token, the call it comes from.
Entry(name, field, text, call) ==
    [name |-> name, field |-> field, value |-> [text |-> text, call |-> call]]

\* A patch of the data of a ConfigMap or Secret: the keys of the body
\* replace those of the object.
patch_data(entries, body) ==
    {e \in entries :
        ~\E b \in body : b.name = e.name /\ b.field = e.field} \cup body

\* A patch whose body gives None for the keys of `name`: they are removed.
remove_keys(entries, name, fields) ==
    {e \in entries : ~(e.name = name /\ e.field \in fields)}

AccountsInit ==
    /\ accounts \in
          [pc : {"ready"},
           sso : {{}},
           cm : {{}},
           secret : {{}},
           policy : {[c \in RBAC_CONFIGMAPS |-> p] :
                        p \in {<<>>, PolicyLine(OTHER_USER, "admin")}},
           calls : {<<>>},
           subjects : {<<>>},
           after : {<<>>}]

AccountsCluster(state) ==
    [sso |-> state.sso, cm |-> state.cm, secret |-> state.secret,
     policy |-> state.policy]

\* The call is over: it is recorded with the cluster as it leaves it.
AccountsReturn(state, call) ==
    [state EXCEPT !.calls = Append(@, call),
                  !.after = Append(@, AccountsCluster(state))]

\* A policy is read or written for `subject` on behalf of the call.
UsedSubject(state, call, cm, subject) ==
    [state EXCEPT !.subjects =
        Append(@, [command |-> call.command, username |-> call.username,
                   cm |-> cm, subject |-> subject])]

\* _update_rbac_policy(k8s_client, cm, namespace, subject, role)
update_rbac_policy(state, call, cm, subject) ==
    [UsedSubject(state, call, cm, subject) EXCEPT
        !.policy[cm] = upsert_policy(@, subject, call.role)]

\* _remove_rbac_policy(k8s_client, cm, namespace, subject)
remove_rbac_policy(state, call, cm, subject) ==
    [UsedSubject(state, call, cm, subject) EXCEPT
        !.policy[cm] = remove_policy(@, subject)]

\* The subject update_argo_user_permissions and delete_argo_user pass on:
\* the username as given.
given_username(name) == name

\* create_argo_user with every cluster call succeeding: the SSO secret and
\* the Workflows policy, the ArgoCD config map, secret and policy, then the
\* token in the SSO secret, all under the sanitized name.
create_argo_user(state, call, n) ==
    LET name == sanitize_username(call.username).value
        s1 == [state EXCEPT
                  !.sso = patch_data(@,
                     {Entry(name, "enabled", "true", 0),
                      Entry(name, "password", "hash", n),
                      Entry(name, "tokens", "", 0)})]
        s2 == update_rbac_policy(s1, call, "argo-server-rbac-config", name)
        s3 == [s2 EXCEPT
                  !.cm = patch_data(@, {Entry(name, "", "login", 0)}),
                  !.secret = patch_data(@,
                     {Entry(name, "password", "hash", n)})]
        s4 == update_rbac_policy(s3, call, "argocd-rbac-cm", name)
    IN  [s4 EXCEPT
            !.sso = patch_data(@, {Entry(name, "tokens", "token", n)})]

\* update_argo_user_permissions: the two policies.
update_argo_user_permissions(state, call) ==
    LET subject == given_username(call.username)
        s1 == update_rbac_policy(state, call, "argo-server-rbac-config",
                                 subject)
    IN  update_rbac_policy(s1, call, "argocd-rbac-cm", subject)

\* delete_argo_user(username, force=True): ArgoCD first, then Workflows.
delete_argo_user(state, call) ==
    LET name == given_username(call.username)
        s1 == [state EXCEPT
                  !.cm = remove_keys(@, name, {""}),
                  !.secret = remove_keys(@, name, {"password"})]
        s2 == remove_rbac_policy(s1, call, "argocd-rbac-cm", name)
        s3 == [s2 EXCEPT
                  !.sso = remove_keys(@, name,
                                      {"enabled", "password", "tokens"})]
    IN  remove_rbac_policy(s3, call, "argo-server-rbac-config", name)

Call(command, name, rolename, outcome) ==
    [command |-> command, username |-> name, role |-> rolename,
     outcome |-> outcome]

\* The operator creates a user.
CreateArgoUser ==
    /\ accounts.pc = "ready"
    /\ Len(accounts.calls) < MaxCalls
    /\ \E name \in UserNames, rolename \in {"admin", "developer", "owner"} :
          LET n == Len(accounts.calls) + 1
              failed == Call("create", name, rolename, "ValueError")
              call == Call("create", name, rolename, "returned")
          IN  IF rolename \notin VALID_ROLES
                    \/ sanitize_username(name).raises
              THEN accounts' = AccountsReturn(accounts, failed)
              ELSE accounts' =
                      AccountsReturn(create_argo_user(accounts, call, n), call)
    /\ AccountsFrame

\* The operator changes a user's role.
UpdateArgoUserPermissions ==
    /\ accounts.pc = "ready"
    /\ Len(accounts.calls) < MaxCalls
    /\ \E name \in UserNames, rolename \in {"admin", "developer", "owner"} :
          LET failed == Call("update", name, rolename, "ValueError")
              call == Call("update", name, rolename, "returned")
          IN  IF rolename \notin VALID_ROLES
              THEN accounts' = AccountsReturn(accounts, failed)
              ELSE accounts' =
                      AccountsReturn(
                         update_argo_user_permissions(accounts, call), call)
    /\ AccountsFrame

\* The operator deletes a user.
DeleteArgoUser ==
    /\ accounts.pc = "ready"
    /\ Len(accounts.calls) < MaxCalls
    /\ \E name \in UserNames :
          LET call == Call("delete", name, "none", "returned")
          IN  accounts' = AccountsReturn(delete_argo_user(accounts, call), call)
    /\ AccountsFrame

AccountsNext ==
    \/ CreateArgoUser
    \/ UpdateArgoUserPermissions
    \/ DeleteArgoUser

(***************************************************************************)
(* cli/argo_user_create.py: _wait_for_token_generation                     *)
(***************************************************************************)
TOKEN_WAIT_TIMEOUT == 30

TOKEN_WAIT_INTERVAL == 1

Tokens == {<<"t", "1">>, <<"t", "2">>}

\* base64 of a text, and base64.b64decode(...).decode("utf-8") of it.
B64(text) == [base64 |-> text]

b64decode(encoded) == encoded.base64

\* The token secret as the token controller leaves it: not there, without
\* data, with data that has no 'token' entry, with a token.
NoSecret == [exists |-> FALSE, data |-> FALSE, token |-> <<>>]

TokenSecrets ==
    {NoSecret,
     [exists |-> TRUE, data |-> FALSE, token |-> <<>>],
     [exists |-> TRUE, data |-> TRUE, token |-> <<>>]}
       \cup {[exists |-> TRUE, data |-> TRUE, token |-> <<B64(t)>>] :
                t \in Tokens}

\* with_token counts the reads that gave a secret carrying a token.
\* What one read gives: an exception of read_secret, or the secret.
ReadError == [raised |-> TRUE, secret |-> NoSecret]

ReadOk(secret) == [raised |-> FALSE, secret |-> secret]

\* secret.data and "token" in secret.data
has_token(read) ==
    ~read.raised /\ read.secret.data /\ read.secret.token # <<>>

\* for _ in range(timeout), one read more than range gives.
more_reads_one_extra(reads) == reads <= TOKEN_WAIT_TIMEOUT

\* for _ in range(timeout): another iteration follows `reads` iterations.
more_reads(reads) == reads < TOKEN_WAIT_TIMEOUT

TokenWaitInit ==
    token_wait \in [pc : {"read"},
                    secret : TokenSecrets,
                    reads : {0},
                    sleeps : {0},
                    clock : {0},
                    found_at : {0},
                    with_token : {0},
                    token : {<<>>},
                    exc : {"none"}]

\* The token controller, or anyone else, changes the secret.
SecretChanges ==
    /\ token_wait.pc \in {"read", "sleep"}
    /\ \E s \in TokenSecrets \ {token_wait.secret} :
          token_wait' = [token_wait EXCEPT !.secret = s]
    /\ TokenWaitFrame

\* Lines 247-256: one iteration up to the sleep.  The read raises (the
\* secret is not there, the API fails) or gives the secret; with a token
\* in it the function returns the token decoded.
TokenRead ==
    /\ token_wait.pc = "read"
    /\ more_reads(token_wait.reads)
    /\ \E read \in {ReadError} \cup
                     (IF token_wait.secret.exists
                      THEN {ReadOk(token_wait.secret)} ELSE {}) :
          LET carried == IF ~read.raised /\ read.secret.token # <<>>
                         THEN 1 ELSE 0
          IN
          IF has_token(read)
          THEN token_wait' =
                  [token_wait EXCEPT
                      !.pc = "returned",
                      !.reads = @ + 1,
                      !.with_token = @ + carried,
                      !.found_at = token_wait.reads + 1,
                      !.token = b64decode(read.secret.token[1])]
          ELSE token_wait' =
                  [token_wait EXCEPT !.pc = "sleep", !.reads = @ + 1,
                                     !.with_token = @ + carried]
    /\ TokenWaitFrame

\* time.sleep(TOKEN_WAIT_INTERVAL)
TokenSleep ==
    /\ token_wait.pc = "sleep"
    /\ token_wait' = [token_wait EXCEPT
                         !.pc = "read",
                         !.sleeps = @ + 1,
                         !.clock = @ + TOKEN_WAIT_INTERVAL]
    /\ TokenWaitFrame

\* Line 259: the loop is over.
TokenTimeout ==
    /\ token_wait.pc = "read"
    /\ ~more_reads(token_wait.reads)
    /\ token_wait' = [token_wait EXCEPT !.pc = "raised",
                                        !.exc = "KubernetesError"]
    /\ TokenWaitFrame

TokenWaitSteps == TokenRead \/ TokenSleep \/ TokenTimeout

TokenWaitNext ==
    \/ SecretChanges
    \/ TokenRead
    \/ TokenSleep
    \/ TokenTimeout

(***************************************************************************)
(* cli/instance_create.py: main, from the command line to the call of      *)
(* create_instance                                                         *)
(***************************************************************************)
\* The options of the parser, by destination, in the order they are added.
CREATE_OPTIONS ==
    <<"template_repository", "template_version", "platform_name",
      "edx_platform_repository", "edx_platform_version", "tutor_version">>

\* The parameters of create_instance after instance_name, in order.
CREATE_PARAMETERS ==
    <<"template_repository", "template_version", "platform_name",
      "edx_platform_repository", "edx_platform_version", "tutor_version">>

\* default= of add_argument.
OptionDefault(option) ==
    CASE option = "template_repository" -> "DEFAULT_TEMPLATE_REPOSITORY"
      [] option = "platform_name" -> "My Open edX Instance"
      [] OTHER -> "None"

\* The defaults in the signature of create_instance.
ParameterDefault(parameter) ==
    IF parameter = "template_repository" THEN "DEFAULT_TEMPLATE_REPOSITORY"
    ELSE "None"

\* What the command line gives for an option.
NotGiven == "-"

OptionValues == {NotGiven, "x", "y"}

CommandLines == [Range(CREATE_OPTIONS) -> OptionValues]

\* parser.parse_args(): the value given, the default otherwise.
parse_args(command_line) ==
    [o \in Range(CREATE_OPTIONS) |->
        IF command_line[o] = NotGiven THEN OptionDefault(o)
        ELSE command_line[o]]

\* The positional arguments of the call in main after args.instance_name.
call_arguments(args) ==
    <<args.template_repository, args.platform_name,
      args.edx_platform_repository, args.edx_platform_version,
      args.tutor_version>>

\* Python binds positional arguments to the parameters in order; the
\* parameters left over take their defaults.
bind(arguments) ==
    [p \in Range(CREATE_PARAMETERS) |->
        LET k == CHOOSE i \in DOMAIN CREATE_PARAMETERS :
                     CREATE_PARAMETERS[i] = p
        IN  IF k <= Len(arguments) THEN arguments[k] ELSE ParameterDefault(p)]

CreateMainInit ==
    /\ fn_call \in Calls("instance_create.main",
                         {<<c>> : c \in CommandLines})
    /\ fn_result = Pending
    /\ ConfigPark
    /\ EnvPark
    /\ ProcsPark

\* main: parse_args, setup_kubeconfig (which may raise), then the call of
\* create_instance, of which the parameters' values are kept.
CreateMain ==
    /\ fn_call.fn = "instance_create.main"
    /\ fn_result.state = "pending"
    /\ \/ fn_result' = Returned(bind(call_arguments(parse_args(fn_call.args[1]))))
       \/ fn_result' = Raised("ConfigurationError")
    /\ UNCHANGED fn_call
    /\ CallFrame

CreateMainNext ==
    \/ CreateMain

(***************************************************************************)
(* .github/workflows/scripts/apply_image_overrides.py                      *)
(*                                                                         *)
(* An override line is a sequence of characters in which the service name  *)
(* is one element.                                                         *)
(***************************************************************************)
MaxOverrides == 2

\* The forms of image_spec: name, with or without a registry host and
\* port, followed by a tag, by a digest or by nothing.
ImageSpecs ==
    {registry \o <<"n">> \o suffix :
        registry \in {<<>>, <<"h", ":", "5", "/">>},
        suffix \in {<<":", "t">>, <<"@", "s", ":", "d">>, <<>>}}

\* service=spec for the services, bare or with white space around the
\* parts, a line without '=' and a blank line.
OverrideLines ==
    {<<service, "=">> \o spec : service \in Services, spec \in ImageSpecs}
    \cup {<<" ", "openedx", " ", "=", " ">> \o spec \o <<" ">> :
             spec \in ImageSpecs}
    \cup {<<"openedx">>, <<" ">>}

\* s.rsplit(sep, 1) when sep is in s
rsplit_once(s, sep) ==
    LET i == CHOOSE k \in DOMAIN s :
                 s[k] = sep /\ \A j \in (k + 1)..Len(s) : s[j] # sep
    IN  <<SubSeq(s, 1, i - 1), SubSeq(s, i + 1, Len(s))>>

\* s.split(sep, 1) when sep is in s
split_once(s, sep) ==
    LET i == CHOOSE k \in DOMAIN s :
                 s[k] = sep /\ \A j \in 1..(k - 1) : s[j] # sep
    IN  <<SubSeq(s, 1, i - 1), SubSeq(s, i + 1, Len(s))>>

split_image_spec(image_spec) ==
    IF ":" \notin Range(image_spec) THEN Raised("SystemExit")
    ELSE Returned(rsplit_once(image_spec, ":"))

\* One line of iter_overrides: skipped when blank, else the triple
\* (service, image_name, image_tag) or SystemExit.
parse_override(raw_line) ==
    LET line == Strip(raw_line, {" "})
        halves == split_once(line, "=")
        service == Strip(halves[1], {" "})
        image_spec == Strip(halves[2], {" "})
        pair == split_image_spec(image_spec)
    IN  IF line = <<>> THEN Returned(<<>>)
        ELSE IF "=" \notin Range(line) THEN Raised("SystemExit")
        ELSE IF pair.state = "raised" THEN pair
        ELSE Returned(<<service, image_spec, pair.value[1], pair.value[2]>>)

\* The image lines of the one YAML file of the env directory.
OverrideEnvLines ==
    <<ImageKey \o <<" ", "n", ":", "o">>,
      ImageKey \o <<" ", "h", ":", "5", "/", "n", ":", "o">>,
      ImageKey \o <<" ", "n", "@", "s", ":", "o">>,
      ImageKey \o <<" ", "m", ":", "o">>>>

OverridesInit ==
    overrides \in
       [pc : {"loop"},
        image_overrides : SeqsUpTo(OverrideLines, MaxOverrides),
        pos : {1},
        config : {[k \in {"DOCKER_IMAGE_OPENEDX", "MFE_DOCKER_IMAGE"} |-> <<>>]},
        env : {OverrideEnvLines},
        applied : {<<>>},
        exc : {"none"}]

OverridesExit(exc) ==
    overrides' = [overrides EXCEPT !.pc = "exited", !.exc = exc]

\* One iteration of the loop of main: the next line of iter_overrides,
\* then load_yaml, resolve_config_key, compute_full_image, save_yaml and
\* patch_env (config.yml is a mapping and the env directory exists).
ApplyOverride ==
    /\ overrides.pc = "loop"
    /\ overrides.pos <= Len(overrides.image_overrides)
    /\ LET parsed == parse_override(overrides.image_overrides[overrides.pos])
           fields == parsed.value
           service == IF Len(fields[1]) = 1 THEN fields[1][1] ELSE "?"
           key == resolve_config_key(service)
           image == compute_full_image(fields[3], fields[4])
           env_image == env_compute_full_image(fields[3], fields[4])
           patched == patch_file(overrides.env,
                                 strip_tag_or_digest(env_image.value),
                                 env_image.value)
       IN  IF parsed.state = "raised" THEN OverridesExit(parsed.exc)
           ELSE IF fields = <<>>
           THEN overrides' = [overrides EXCEPT !.pos = @ + 1]
           ELSE IF key.state = "raised" THEN OverridesExit(key.exc)
           ELSE IF image.state = "raised" THEN OverridesExit(image.exc)
           ELSE overrides' =
                   [overrides EXCEPT
                       !.pos = @ + 1,
                       !.config[key.value] = image.value,
                       !.env = patched.new_lines,
                       !.applied =
                           Append(@, [service |-> service,
                                      image_spec |-> fields[2],
                                      key |-> key.value,
                                      stored |-> image.value,
                                      before |-> overrides.env,
                                      after |-> patched.new_lines])]
    /\ UNCHANGED <<commandVars, PureVars, kube, installer, editors,
                   token_wait, accounts>>

\* The generator is exhausted: main returns.
OverridesDone ==
    /\ overrides.pc = "loop"
    /\ overrides.pos > Len(overrides.image_overrides)
    /\ overrides' = [overrides EXCEPT !.pc = "exited"]
    /\ UNCHANGED <<commandVars, PureVars, kube, installer, editors,
                   token_wait, accounts>>

OverridesNext ==
    \/ ApplyOverride
    \/ OverridesDone

(***************************************************************************)
(* Specifications: one per command, the other commands parked              *)
(***************************************************************************)
InitApply ==
    /\ ApplyInit
    /\ ClusterPark
    /\ CreatePark
    /\ DeletePark
    /\ UserPark
    /\ PolicyPark
    /\ WaitPark
    /\ ToolsPark

SpecApply == InitApply /\ [][ApplyNext]_vars

InitCreate ==
    /\ ApplyPark
    /\ CreateInit
    /\ DeletePark
    /\ UserPark
    /\ PolicyPark
    /\ WaitPark
    /\ ToolsPark

SpecCreate == InitCreate /\ [][CreateNext]_vars

InitDelete ==
    /\ ApplyPark
    /\ CreatePark
    /\ DeleteInit
    /\ UserPark
    /\ PolicyPark
    /\ WaitPark
    /\ ToolsPark

SpecDelete == InitDelete /\ [][DeleteNext]_vars

InitUser ==
    /\ ApplyPark
    /\ ClusterPark
    /\ CreatePark
    /\ DeletePark
    /\ UserInit
    /\ PolicyPark
    /\ WaitPark
    /\ ToolsPark

SpecUser == InitUser /\ [][UserNext]_vars

InitPolicy ==
    /\ ApplyPark
    /\ ClusterPark
    /\ CreatePark
    /\ DeletePark
    /\ PolicyInit
    /\ WaitPark
    /\ ToolsPark

SpecPolicy == InitPolicy /\ [][PolicyNext]_vars

InitWait ==
    /\ ApplyPark
    /\ ClusterPark
    /\ CreatePark
    /\ DeletePark
    /\ UserPark
    /\ PolicyPark
    /\ WaitInit
    /\ ToolsPark

\* Either delete command is run, with or without --force.
InitConfirm ==
    /\ ApplyPark
    /\ CreatePark
    /\ WaitPark
    /\ \/ DeleteInit /\ UserPark
       \/ ClusterPark /\ DeletePark /\ UserInit
    /\ PolicyPark
    /\ ToolsPark

ConfirmNext ==
    \/ DeleteNext
    \/ UserNext

SpecConfirm == InitConfirm /\ [][ConfirmNext]_vars

\* Time passes and kubectl runs to its exit: weak fairness of its steps.
SpecWait == InitWait /\ [][WaitNext]_vars /\ WF_vars(WaitSteps)

InitSanitize ==
    /\ CommandsPark
    /\ SanitizeInit
    /\ ProcsPark

SpecSanitize == InitSanitize /\ [][SanitizeNext]_vars

InitImage ==
    /\ CommandsPark
    /\ ImageInit
    /\ ProcsPark

SpecImage == InitImage /\ [][ImageNext]_vars

InitConfig ==
    /\ CommandsPark
    /\ ConfigInit
    /\ ProcsPark

SpecConfig == InitConfig /\ [][ConfigNext]_vars

InitEnv ==
    /\ CommandsPark
    /\ EnvInit
    /\ ProcsPark

SpecEnv == InitEnv /\ [][EnvNext]_vars

InitRender ==
    /\ CommandsPark
    /\ RenderInit
    /\ ProcsPark

SpecRender == InitRender /\ [][RenderNext]_vars

InitApplyUrl ==
    /\ ApplyUrlInit
    /\ ProcsPark
    /\ ClusterPark
    /\ CreatePark
    /\ DeletePark
    /\ UserPark
    /\ PolicyPark
    /\ WaitPark

SpecApplyUrl == InitApplyUrl /\ [][ApplyUrlNext]_vars

InitKubeconfig ==
    /\ CommandsPark
    /\ CallPark
    /\ ConfigPark
    /\ EnvPark
    /\ KubeInit
    /\ InstallerPark
    /\ EditorsPark
    /\ TokenWaitPark
    /\ OverridesPark
    /\ AccountsPark

SpecKubeconfig == InitKubeconfig /\ [][KubeNext]_vars

InitInstaller ==
    /\ CommandsPark
    /\ CallPark
    /\ ConfigPark
    /\ EnvPark
    /\ KubePark
    /\ InstallerInit
    /\ EditorsPark
    /\ TokenWaitPark
    /\ OverridesPark
    /\ AccountsPark

SpecInstaller == InitInstaller /\ [][InstallerNext]_vars

InitEditors ==
    /\ CommandsPark
    /\ CallPark
    /\ ConfigPark
    /\ EnvPark
    /\ KubePark
    /\ InstallerPark
    /\ EditorsInit
    /\ TokenWaitPark
    /\ OverridesPark
    /\ AccountsPark

SpecEditors == InitEditors /\ [][EditorsNext]_vars

InitAccounts ==
    /\ CommandsPark
    /\ CallPark
    /\ ConfigPark
    /\ EnvPark
    /\ KubePark
    /\ InstallerPark
    /\ EditorsPark
    /\ TokenWaitPark
    /\ OverridesPark
    /\ AccountsInit

SpecAccounts == InitAccounts /\ [][AccountsNext]_vars

InitTokenWait ==
    /\ CommandsPark
    /\ CallPark
    /\ ConfigPark
    /\ EnvPark
    /\ KubePark
    /\ InstallerPark
    /\ EditorsPark
    /\ TokenWaitInit
    /\ OverridesPark
    /\ AccountsPark

\* The reads return and the sleeps end: weak fairness of the function's
\* own steps, none for the changes of the secret.
SpecTokenWait ==
    InitTokenWait /\ [][TokenWaitNext]_vars /\ WF_vars(TokenWaitSteps)

InitCreateMain ==
    /\ CommandsPark
    /\ CreateMainInit

SpecCreateMain == InitCreateMain /\ [][CreateMainNext]_vars

InitOverrides ==
    /\ CommandsPark
    /\ CallPark
    /\ ConfigPark
    /\ EnvPark
    /\ KubePark
    /\ InstallerPark
    /\ EditorsPark
    /\ TokenWaitPark
    /\ OverridesInit
    /\ AccountsPark

SpecOverrides == InitOverrides /\ [][OverridesNext]_vars

(***************************************************************************)
(* C1, C2: apply_manifest                                                  *)
(***************************************************************************)
\* Indexes below k of the documents filter() lets through, in order.
NonEmptyBefore(k) ==
    SelectSeq([i \in 1..(k - 1) |-> i],
              LAMBDA i : i <= Len(documents) /\ documents[i].shape # "empty")

DocIndexes(s) == [i \in DOMAIN s |-> s[i].doc]

\* The document whose processing ended the call with an exception.
FailedAt == doc_pos - 1

\* C1: apply_manifest applies the non-empty documents one at a time in
\* document order; when document k fails the call raises, the documents
\* before k stay applied and no document after k is attempted.
C1_PartialApplication ==
    /\ IsStrictlyIncreasing(DocIndexes(kubectl_calls))
    /\ IsPrefix(DocIndexes(applied), DocIndexes(kubectl_calls))
    /\ (am_exc # NoExc) <=> (am_state = "raised")
    /\ am_state \in {"running", "returned"} =>
          /\ DocIndexes(applied) = NonEmptyBefore(doc_pos)
          /\ DocIndexes(kubectl_calls) = NonEmptyBefore(doc_pos)
    /\ am_state = "returned" => doc_pos = Len(documents) + 1
    /\ am_state = "raised" =>
          /\ documents[FailedAt].shape # "empty"
          /\ DocIndexes(applied) = NonEmptyBefore(FailedAt)
          /\ \A i \in Range(DocIndexes(kubectl_calls)) : i <= FailedAt
    /\ \A i \in DOMAIN applied : applied[i].namespace = NAMESPACE

\* A two-document manifest whose second document fails in kubectl, with a
\* third document left unattempted.
C1_Witness ==
    /\ am_state = "raised"
    /\ Len(applied) >= 1
    /\ Len(kubectl_calls) = Len(applied) + 1
    /\ FailedAt < Len(documents)
    /\ documents[Len(documents)].shape = "mapping"

LastCall == kubectl_calls[Len(kubectl_calls)]

Present(e) ==
    IF e = "dir" THEN instance_dir.exists
    ELSE IF e = "namespace" THEN ns_exists
    ELSE IF e = "rbac" THEN rbac_objects = "all"
    ELSE IF e = "controller" THEN controller
    ELSE IF e = "application" THEN application
    ELSE provision_wf[e]

Entered(st) == st \in Range(ci_steps)

OrderAndGate ==
    /\ IsPrefix(ci_steps, CREATE_STEPS)
    /\ ci_pc.step \notin {"done", "raised"} =>
          ci_pc = CREATE_STEPS[Len(ci_steps) + 1]
    /\ Entered(St("application")) => wait_results = <<TRUE, TRUE, TRUE>>
    /\ application => wait_results = <<TRUE, TRUE, TRUE>>
    /\ ci_pc = St("done") => ci_steps = CREATE_STEPS /\ application

\* C3 as stated: the steps run in the fixed order, the GitOps application is
\* applied only after all three workflows succeeded, and when a step fails
\* everything the call created, the workflows included, is still in place.
C3_Original ==
    /\ OrderAndGate
    /\ ci_pc = St("raised") => \A e \in ci_created : Present(e)

\* C3 as amended: as stated, except that the workflows are left in place
\* only when the failure comes before the success path's own clean-up; a
\* failure of the final GitOps apply finds them already deleted by it.
C3_Amended ==
    /\ OrderAndGate
    /\ ci_pc = St("raised") =>
          /\ \A e \in ci_created \ WorkflowNames : Present(e)
          /\ ~Entered(St("cleanup")) =>
                \A w \in ci_created \cap WorkflowNames : Present(w)
          /\ Entered(St("cleanup")) =>
                ci_steps[Len(ci_steps)] = St("application")

\* A workflow failed: the call raised with the directory, the namespace,
\* the RBAC objects and all three workflows it created still there.
C3_Witness ==
    /\ ci_pc = St("raised")
    /\ ci_steps[Len(ci_steps)] = St("check")
    /\ ci_created = {"dir", "namespace", "rbac", "controller"} \cup WorkflowNames
    /\ \A e \in ci_created : Present(e)
    /\ ~wait_results[2]

(***************************************************************************)
(* C4, C5: delete_instance                                                 *)
(***************************************************************************)
DeleteEntered(st) == st \in Range(di_steps)

DeleteFinished == di_pc.step \in {"returned", "raised"}

\* C4: the instance directory is removed only after the namespace has been
\* verified absent, or was absent when the command started; when the
\* namespace delete command fails or the namespace still exists after it,
\* delete_instance raises KubernetesError (the spec's ClusterError) and the
\* instance directory is left in place.
C4_DirAfterNamespace ==
    /\ instance_dir # di_cluster0.dir =>
          \/ ~di_cluster0.ns
          \/ di_obs.verify = "nonzero" /\ ~ns_exists
    /\ (\/ di_obs.delete_rc = "nonzero"
        \/ DeleteEntered(St("verify_namespace")) /\ ns_exists) =>
          /\ di_pc = St("raised")
          /\ di_exc = "KubernetesError"
          /\ instance_dir = di_cluster0.dir

ClientConstructed ==
    /\ u_cmd = "delete"
    /\ Len(u_steps) >= 2
    /\ u_steps[2] = St("client")
    /\ ~(Len(u_steps) = 2 /\ u_pc = St("raised"))

RemovalsEntered == SubSeq(u_steps, 3, Len(u_steps))

\* C6: once confirmed and with its client constructed, delete_argo_user
\* attempts the eleven removal steps in order whichever of them fail, and
\* returns normally for every combination of failing steps.
C6_EveryRemovalAttempted ==
    ClientConstructed =>
        /\ u_pc # St("raised") /\ u_exc = "none"
        /\ IsPrefix(RemovalsEntered, REMOVAL_STEPS)
        /\ u_failed \subseteq Range(RemovalsEntered)
        /\ IF RemovalsEntered = REMOVAL_STEPS THEN u_pc = St("returned")
           ELSE u_pc = REMOVAL_STEPS[Len(RemovalsEntered) + 1]

\* All eleven removal steps failed and the command returned.
C6_Witness ==
    /\ ClientConstructed
    /\ u_pc = St("returned")
    /\ u_failed = Range(REMOVAL_STEPS)
    /\ Len(REMOVAL_STEPS) = 11

\* delete_argo_user ran to its end for the user create_argo_user had just
\* created, and no cluster call of either command failed.
CreatedThenDeleted ==
    /\ u_added.complete
    /\ ClientConstructed
    /\ u_pc = St("returned")
    /\ u_failed = {}

\* C7: user deletion is the inverse of user creation: for every username,
\* when all cluster calls succeed, create_argo_user followed by
\* delete_argo_user leaves none of the entries the creation added (the
\* accounts.* keys of argocd-cm, argocd-secret and argo-server-sso, the
\* subject's line in both RBAC policies, the ServiceAccount and the token
\* secret).
C7_DeleteInvertsCreate ==
    CreatedThenDeleted =>
        /\ argocd_cm \cap u_added.cm = {}
        /\ argocd_secret \cap u_added.secret = {}
        /\ sso_secret \cap u_added.sso = {}
        /\ \A l \in u_added.lines : l.line \notin Range(Split(policy[l.cm], NL))
        /\ k8s_objects \cap u_added.objects = {}

(***************************************************************************)
(* C8: the RBAC policy editors                                             *)
(***************************************************************************)
LastLine(text) == Split(text, NL)[Len(Split(text, NL))]

\* What holds of the policy an upsert has just written.
UpsertPostcondition ==
    (pe_last.op = "upsert" /\ pe_last.ok) =>
        LET text == policy[pe_last.cm]
        IN  /\ Cardinality(LinesFor(text, pe_last.subject)) = 1
            /\ LastLine(text) = PolicyLine(pe_last.subject, pe_last.role)
            /\ upsert_policy(text, pe_last.subject, pe_last.role) = text

AtMostOneLine(pol, cm, subject) == Cardinality(LinesFor(pol[cm], subject)) <= 1

\* C8: after an upsert of (subject, role) into any policy text the policy
\* holds exactly one line for the subject, it is the last line and it is
\* 'g, <subject>, role:<role>', and the same upsert again leaves that policy
\* as it is; and no upsert or removal gives a subject that had at most one
\* line a second one.
C8_OneLinePerSubject ==
    /\ UpsertPostcondition
    /\ \A cm \in RBAC_CONFIGMAPS, s \in PolicySubjects :
          AtMostOneLine(pe_last.before, cm, s) => AtMostOneLine(policy, cm, s)

\* An upsert replaced two lines of its subject in a policy that holds
\* other subjects' lines, one of them with a name the subject is part of.
C8_Witness ==
    /\ pe_last.op = "upsert" /\ pe_last.ok
    /\ Cardinality(LinesFor(pe_last.before[pe_last.cm], <<"a">>)) = 2
    /\ pe_last.subject = <<"a">>
    /\ LinesFor(policy[pe_last.cm], <<"a", "b">>) # {}
    /\ pe_count >= 2

(***************************************************************************)
(* C9: the workflow wait                                                   *)
(***************************************************************************)
WaitSafety ==
    /\ w_pc # "raised"
    /\ w_elapsed <= WORKFLOW_TIMEOUT
    /\ w_pc = "returned" =>
          /\ w_result <=>
                (w_wait = "zero" /\ w_get = "zero" /\ wf_phase = "Succeeded")
          /\ (\/ w_wait \in {"timeout", "error"}
              \/ w_get = "error"
              \/ wf_phase # "Succeeded") => ~w_result
          /\ w_wait = "timeout" => w_elapsed = WORKFLOW_TIMEOUT
          /\ (wf_phases = <<"Pending">> /\ w_wait # "error") =>
                w_elapsed = WORKFLOW_TIMEOUT /\ w_wait = "timeout"

\* C9: the wait returns true when the workflow reaches Succeeded within the
\* timeout (and kubectl get reports it), false without raising when the
\* blocking wait times out or exits non-zero or the phase is not Succeeded;
\* for a workflow that stays Pending it returns false once the timeout has
\* elapsed; and it always returns.
C9_WaitReturns == []WaitSafety /\ <>(w_pc = "returned")

\* Pending, Running, Succeeded within the timeout: true.
C9_Witness ==
    /\ w_pc = "returned"
    /\ wf_phases = <<"Pending", "Running", "Succeeded">>
    /\ w_elapsed > 0 /\ w_elapsed < WORKFLOW_TIMEOUT
    /\ w_result

(***************************************************************************)
(* C10: the confirmation of the delete commands                            *)
(***************************************************************************)
\* 'y' or 'yes' in any mix of upper and lower case.
IsYes(answer) ==
    \/ Len(answer) = 1 /\ answer[1] \in {"y", "Y"}
    \/ /\ Len(answer) = 3
       /\ answer[1] \in {"y", "Y"}
       /\ answer[2] \in {"e", "E"}
       /\ answer[3] \in {"s", "S"}

\* C10: delete_instance and delete_argo_user, when not forced, change
\* nothing in the cluster or on disk unless the answer typed is 'y' or
\* 'yes' in any case: any other answer makes the command return at once
\* with everything as it was; when forced, nothing is asked.
C10_NothingWithoutYes ==
    /\ di_force => ~di_asked
    /\ ClusterState # di_cluster0 => (di_force \/ (di_asked /\ IsYes(di_answer)))
    /\ (di_asked /\ ~IsYes(di_answer)) =>
          /\ di_pc = St("returned")
          /\ di_steps = <<St("confirm")>>
          /\ ClusterState = di_cluster0
    /\ u_force => ~u_asked
    /\ (u_cmd = "delete" /\ UserCluster # u_cluster0) =>
          (u_force \/ (u_asked /\ IsYes(u_answer)))
    /\ (u_asked /\ ~IsYes(u_answer)) =>
          /\ u_pc = St("returned")
          /\ u_steps = <<St("confirm")>>
          /\ UserCluster = u_cluster0

\* delete_instance of a provisioned instance, not forced, answered 'ye':
\* it has returned and the namespace and the directory are still there.
C10_Witness ==
    /\ ~di_force
    /\ di_answer = <<"y", "e">>
    /\ di_pc = St("returned")
    /\ ns_exists /\ instance_dir.exists

(***************************************************************************)
(* C11: sanitize_username                                                  *)
(***************************************************************************)
\* The elements of s at the indexes in K, in increasing order of index.
Keep(s, K) ==
    [j \in 1..Cardinality(K) |->
        s[CHOOSE i \in K : Cardinality({k \in K : k < i}) = j - 1]]

\* Every run of the character c in s becomes a single c.
OnePerRun(s, c) ==
    Keep(s, {i \in DOMAIN s : ~(s[i] = c /\ i > 1 /\ s[i - 1] = c)})

\* s from its first to its last character outside chars.
Trimmed(s, chars) ==
    LET inner == {i \in DOMAIN s : s[i] \notin chars}
    IN  IF inner = {} THEN <<>>
        ELSE SubSeq(s, CHOOSE i \in inner : \A k \in inner : i <= k,
                       CHOOSE i \in inner : \A k \in inner : k <= i)

\* Lowercase, '-' for every character outside [a-z0-9.-], one '-' per run
\* of '-', one '.' per run of '.', no leading or trailing '-' or '.'.
Described(u) ==
    LET low == Lower(u)
        safe == [i \in DOMAIN low |->
                    IF low[i] \in SafeChars THEN low[i] ELSE "-"]
    IN  Trimmed(OnePerRun(OnePerRun(safe, "-"), "."), {"-", "."})

\* C11: sanitize_username(u) returns the described text, raises ValueError
\* exactly when that text is empty, and maps 'User@Example.com' to
\* 'user-example.com'.
C11_SanitizeAsDescribed ==
    Called("sanitize_username") =>
        LET u == fn_call.args[1]
        IN  /\ fn_result.state = "raised" <=> Described(u) = <<>>
            /\ fn_result.state = "raised" => fn_result.exc = "ValueError"
            /\ fn_result.state = "returned" => fn_result.value = Described(u)
            /\ u = <<"U", "s", "e", "r", "@", "E", "x", "a", "m", "p", "l", "e", ".", "c", "o", "m">>
                   => fn_result = Returned(<<"u", "s", "e", "r", "-", "e", "x", "a", "m", "p", "l", "e", ".", "c", "o", "m">>)

\* An all-symbol name was refused and the tested address was sanitized.
C11_Witness ==
    /\ Called("sanitize_username")
    /\ \/ /\ fn_call.args[1] = <<"@", "@", "@", "@">>
          /\ fn_result.state = "raised"
       \/ /\ fn_call.args[1] = <<"U", "s", "e", "r", "@", "E", "x", "a", "m", "p", "l", "e", ".", "c", "o", "m">>
          /\ fn_result.state = "returned"

(***************************************************************************)
(* C12: the sanitized name as a Kubernetes resource name                   *)
(***************************************************************************)
AlphaNumeric == Range(LowerCase) \cup Digits

\* RFC 1123 label: alphanumerics and '-', alphanumeric at both ends.
IsDns1123Label(label) ==
    /\ label # <<>>
    /\ \A i \in DOMAIN label : label[i] \in AlphaNumeric \cup {"-"}
    /\ label[1] \in AlphaNumeric
    /\ label[Len(label)] \in AlphaNumeric

IsDns1123Subdomain(name) ==
    \A i \in DOMAIN Split(name, ".") : IsDns1123Label(Split(name, ".")[i])

\* C12: every value sanitize_username returns is a DNS-1123 subdomain: only
\* [a-z0-9.-], and every dot-separated label is non-empty and starts and
\* ends with an alphanumeric character.
C12_ReturnsDns1123Subdomain ==
    (Called("sanitize_username") /\ fn_result.state = "returned") =>
        IsDns1123Subdomain(fn_result.value)

(***************************************************************************)
(* C13: compute_full_image                                                 *)
(***************************************************************************)
\* A ':' of n with no '/' after it: the last segment carries a tag.
ColonInLastSegment(n) ==
    \E i \in DOMAIN n : n[i] = ":" /\ \A j \in (i + 1)..Len(n) : n[j] # "/"

FullImageCopies ==
    {"update_config_image.compute_full_image",
     "update_env_image_refs.compute_full_image"}

Untagged(n) == "@" \notin Range(n) /\ ~ColonInLastSegment(n)

\* strip_tag_or_digest(n + '@' + d) = n for every split of the argument
\* into an untagged n, an '@' and a digest d.
StripsDigest ==
    Called("strip_tag_or_digest") =>
        \A i \in DOMAIN fn_call.args[1] :
            (fn_call.args[1][i] = "@"
             /\ Untagged(SubSeq(fn_call.args[1], 1, i - 1)))
                => fn_result =
                       Returned(SubSeq(fn_call.args[1], 1, i - 1))

\* C14 as stated: for every untagged n and every non-empty tag t,
\* strip_tag_or_digest(compute_full_image(n, t)) = n, and for every digest
\* d, strip_tag_or_digest(n + '@' + d) = n.
C14_Original ==
    /\ StripsDigest
    /\ (/\ Called("patch_env.base_image")
        /\ Untagged(fn_call.args[1])
        /\ fn_call.args[2] # <<>>)
           => fn_result = Returned(fn_call.args[1])

\* C14 amended: the same, for every non-empty tag t that contains neither
\* '/' nor '@'.
C14_Amended ==
    /\ StripsDigest
    /\ (/\ Called("patch_env.base_image")
        /\ Untagged(fn_call.args[1])
        /\ fn_call.args[2] # <<>>
        /\ "/" \notin Range(fn_call.args[2])
        /\ "@" \notin Range(fn_call.args[2]))
           => fn_result = Returned(fn_call.args[1])

\* A tag was appended after a registry port and stripped again.
C14_Witness ==
    /\ Called("patch_env.base_image")
    /\ fn_call.args = <<<<"r", "e", "g", "i", "s", "t", "r", "y", ":", "5", "0", "0", "0", "/", "a", "p", "p">>, <<"v", "1">>>>
    /\ fn_result = Returned(<<"r", "e", "g", "i", "s", "t", "r", "y", ":", "5", "0", "0", "0", "/", "a", "p", "p">>)

(***************************************************************************)
(* C15, C16: merge_dicts, as update_config.main calls it                   *)
(***************************************************************************)
\* The merge as described: a key of src whose values in dst and src are
\* both mappings is merged recursively, any other key of src takes the
\* value of src, the other keys of dst keep theirs.
RECURSIVE DescribedMerge(_, _)
DescribedMerge(dst, src) ==
    PyDict([key \in DOMAIN dst.items \cup DOMAIN src.items |->
               IF key \notin DOMAIN src.items THEN dst.items[key]
               ELSE IF /\ key \in DOMAIN dst.items
                       /\ dst.items[key].type = "dict"
                       /\ src.items[key].type = "dict"
                    THEN DescribedMerge(dst.items[key], src.items[key])
                    ELSE src.items[key]])

MergeRaised ==
    /\ fn_call.fn = "update_config.main"
    /\ fn_result.state = "raised"
    /\ fn_result.exc = "TypeError"

\* data after merge_dicts returned, config.yml still as it was loaded.
Merged == fn_call.fn = "update_config.main" /\ cfg_pc = "save"

\* C15: merge(dst, src) never raises, whatever the two mappings hold, and
\* leaves in dst the described merge: mappings merged recursively, every
\* other key of src overwritten (a non-mapping by a mapping too), the
\* remaining keys of dst kept.
C15_MergeNeverRaises ==
    /\ ~MergeRaised
    /\ Merged =>
           cfg_data = DescribedMerge(load_yaml(config_file).value,
                                     fn_call.args[1])

\* C16: merge(merge(A, B), B) = merge(A, B) for all config mappings A
\* and B: merging B has a result, and merging B into it again returns it.
C16_MergeIdempotent ==
    /\ ~MergeRaised
    /\ Merged =>
           merge_dicts(cfg_data, fn_call.args[1]) = Returned(cfg_data)

(***************************************************************************)
(* C17: a config.yml whose root is no mapping                              *)
(***************************************************************************)
\* config.yml holds a list, a string, a number or a boolean.
NonMappingRoot == config_file.type \in {"list", "str", "int", "bool"}

LoadAttempted == cfg_pc \in {"update", "save", "exited"}

\* C17: once load_yaml has run on a config.yml whose root is a list, a
\* string, a number or a boolean (empty or not), the script has failed and
\* has written nothing to the file.
C17_NonMappingRootFails ==
    (NonMappingRoot /\ LoadAttempted) =>
        /\ fn_result.state = "raised"
        /\ fn_result.exc = "SystemExit"
        /\ cfg_saved = <<>>

(***************************************************************************)
(* C18: patch_env                                                          *)
(***************************************************************************)
\* ref is base, base:tag or base@digest.  A ':' with a '/' after it is the
\* port of a registry and not a tag: such a reference names another image.
NamesBase(ref, base) ==
    \/ ref = base
    \/ /\ Len(ref) > Len(base) + 1
       /\ SubSeq(ref, 1, Len(base)) = base
       /\ \/ ref[Len(base) + 1] = "@"
          \/ /\ ref[Len(base) + 1] = ":"
             /\ "/" \notin
                    Range(Split(SubSeq(ref, Len(base) + 2, Len(ref)), "@")[1])

AllIn(s, from, to, chars) == \A x \in from..to : s[x] \in chars

\* The <<j, k>> for which line is <indent>image:<gap> up to j - 1, a
\* reference to base from j to k - 1, and from k on only white space that
\* an optional comment follows.
ImageLineSplits(line, base) ==
    {jk \in (1..(Len(line) + 1)) \X (1..(Len(line) + 1)) :
        /\ jk[1] < jk[2]
        /\ \E i \in 1..jk[1] :
              /\ AllIn(line, 1, i - 1, WhiteSpace)
              /\ StartsAt(line, i, ImageKey)
              /\ i + Len(ImageKey) <= jk[1]
              /\ AllIn(line, i + Len(ImageKey), jk[1] - 1, WhiteSpace)
        /\ \A x \in jk[1]..(jk[2] - 1) : line[x] \notin WhiteSpace \cup {"#"}
        /\ NamesBase(SubSeq(line, jk[1], jk[2] - 1), base)
        /\ \E c \in jk[2]..(Len(line) + 1) :
              /\ AllIn(line, jk[2], c - 1, WhiteSpace)
              /\ c <= Len(line) => line[c] = "#"}

\* The line with its image token replaced by full, everything else kept.
DescribedLine(line, base, full) ==
    IF ImageLineSplits(line, base) = {} THEN line
    ELSE LET jk == CHOOSE x \in ImageLineSplits(line, base) : TRUE
         IN  SubSeq(line, 1, jk[1] - 1) \o full
                 \o SubSeq(line, jk[2], Len(line))

DescribedFile(file, base, full) ==
    IF IsYaml(file)
    THEN [file EXCEPT !.lines =
              [i \in DOMAIN file.lines |->
                  DescribedLine(file.lines[i], base, full)]]
    ELSE file

\* The YAML files with a line that references base, in path order.
DescribedPaths(files, base) ==
    LET hit == SelectSeq(files,
                   LAMBDA file :
                       /\ IsYaml(file)
                       /\ \E i \in DOMAIN file.lines :
                              ImageLineSplits(file.lines[i], base) # {})
    IN  [i \in DOMAIN hit |-> hit[i].path]

PatchEnvReturned ==
    /\ fn_call.fn = "patch_env"
    /\ env_pc = "exited"
    /\ fn_result.state = "returned"

\* C18: when patch_env returns, every line '<indent>image: <base>[:tag|
\* @digest][ # comment]' of every .yml/.yaml file under env_dir has its
\* image token replaced by the full new image, indentation and comment
\* kept; every other line (also one naming an image that only shares a
\* prefix or a suffix with <base>) and every other file is as it was; the
\* result is the count and the list of the files with such a line.
C18_PatchEnv ==
    PatchEnvReturned =>
        /\ env_files =
               [i \in DOMAIN env_orig |->
                   DescribedFile(env_orig[i], base_image, full_image.value)]
        /\ fn_result.value.paths = DescribedPaths(env_orig, base_image)
        /\ fn_result.value.count = Len(fn_result.value.paths)
        /\ (/\ fn_call.args = <<<<"r", "e", "p", "o", "/", "a", "p", "p">>, <<"v", "2">>>>
            /\ env_orig = <<EnvFile("a.yml", "yml", <<<<"i", "m", "a", "g", "e", ":", " ", "r", "e", "p", "o", "/", "a", "p", "p", ":", "v", "1", " ", " ", "#", " ", "c", "o", "m", "m", "e", "n", "t">>>>)>>)
               => /\ env_files = <<EnvFile("a.yml", "yml", <<<<"i", "m", "a", "g", "e", ":", " ", "r", "e", "p", "o", "/", "a", "p", "p", ":", "v", "2", " ", " ", "#", " ", "c", "o", "m", "m", "e", "n", "t">>>>)>>
                  /\ fn_result.value.count = 1

(***************************************************************************)
(* C19: render_manifest                                                    *)
(***************************************************************************)
\* The manifest went through render_manifest: called by itself, or by
\* apply_manifest, which renders when it is given variables.
Rendered ==
    \/ Called("render_manifest")
    \/ Called("apply_manifest") /\ DOMAIN fn_call.args[2] # {}

\* Every piece of the template is text or a whole placeholder.
WellFormed(parts) == \A i \in DOMAIN parts : parts[i].kind # "unclosed"

\* Piece by piece: text as it is, a placeholder as the value of its
\* variable, or as nothing when the mapping has no such variable.
DescribedRender(parts, variables) ==
    Concat([i \in DOMAIN parts |->
               IF parts[i].kind # "var" THEN parts[i].text
               ELSE IF parts[i].name \in DOMAIN variables
                    THEN variables[parts[i].name]
                    ELSE <<>>])

\* C19: rendering a manifest never raises for its placeholders, replaces
\* every '{{ VAR }}' by the value of VAR, or by the empty string when the
\* mapping has no VAR, and leaves no placeholder text in the result.
C19_RenderReplacesAll ==
    (Rendered /\ WellFormed(fn_call.args[1])) =>
        /\ fn_result = Returned(DescribedRender(fn_call.args[1],
                                                fn_call.args[2]))
        /\ ~Contains(fn_result.value, <<"{", "{">>)
        /\ ~Contains(fn_result.value, <<"}", "}">>)

\* apply_manifest rendered a manifest with a defined and an undefined
\* variable.
C19_Witness ==
    /\ Called("apply_manifest")
    /\ DOMAIN fn_call.args[2] = {"A"}
    /\ WellFormed(fn_call.args[1])
    /\ \E i, j \in DOMAIN fn_call.args[1] :
          /\ fn_call.args[1][i].name = "A"
          /\ fn_call.args[1][j].name = "B"
    /\ fn_result.state = "returned"

(***************************************************************************)
(* C20: apply_manifest_from_url                                            *)
(***************************************************************************)
Fetched == fn_call.fn = "__get_manifest_from_url" /\ fn_call.args # <<>>

\* A network error or a status outside 2xx.
FetchFailed == Fetched /\ fn_call.args[1] # "2xx"

NothingApplied == kubectl_calls = <<>> /\ applied = <<>> /\ doc_pos = 1

\* C20: apply_manifest_from_url fetches before it applies anything, and a
\* failed fetch (network error or non-2xx status) makes it raise
\* ManifestError with no document applied and no apply command run.
C20_FetchBeforeApply ==
    /\ fn_call.fn = "__get_manifest_from_url" =>
           (~Fetched => NothingApplied)
    /\ FetchFailed =>
           /\ am_state = "raised"
           /\ am_exc.type = "ManifestError"
           /\ NothingApplied

(***************************************************************************)
(* C21, C22: setup_kubeconfig                                              *)
(***************************************************************************)
KubeDone(step) == step \in Range(kube.steps)

KubeEnded == kube.pc \in {"returned", "raised"}

\* The content of the first source that gave one.
FirstContent ==
    IF kube.terraform # NoContent THEN kube.terraform ELSE kube.env

\* Both sources were read and neither gave content.
NeitherYields ==
    /\ KubeDone("terraform")
    /\ KubeDone("env")
    /\ FirstContent = NoContent

\* C21: setup_kubeconfig takes the content of the Terraform/OpenTofu
\* output, reads KUBECONFIG_CONTENT exactly when that output gave nothing,
\* and writes the content it took, unchanged, to ~/.kube/config; when
\* neither gives content it returns and leaves an existing file as it was,
\* and raises ConfigurationError when there is no file.
C21_FirstSourceWritten ==
    /\ KubeDone("env") => KubeDone("terraform") /\ kube.terraform = NoContent
    /\ (/\ kube.pc \notin {"terraform", "env"}
        /\ kube.exc = "none"
        /\ kube.terraform = NoContent) => KubeDone("env")
    /\ kube.pc \notin {"terraform", "env"} =>
          kube.kubeconfig_content = FirstContent
    /\ (kube.pc = "returned" /\ FirstContent # NoContent) =>
          /\ kube.kubeconfig_path.exists
          /\ kube.kubeconfig_path.content = FirstContent
    /\ (KubeEnded /\ NeitherYields /\ kube.before.exists) =>
          /\ kube.pc = "returned"
          /\ kube.kubeconfig_path = kube.before
          /\ kube.tmp_path = NoFile
    /\ (KubeEnded /\ NeitherYields /\ ~kube.before.exists) =>
          /\ kube.pc = "raised"
          /\ kube.exc = "ConfigurationError"
          /\ kube.kubeconfig_path = NoFile
    /\ (kube.pc = "returned" /\ FirstContent = NoContent) => NeitherYields

\* Terraform gave nothing, the environment variable gave a content and it
\* replaced the kubeconfig that was there.
C21_Witness ==
    /\ kube.pc = "returned"
    /\ kube.terraform = NoContent
    /\ kube.env # NoContent
    /\ kube.before.exists
    /\ kube.kubeconfig_path.content = kube.env
    /\ kube.kubeconfig_path.content # kube.before.content

WRITE_STEPS == <<"mkdir", "tmpfile", "write", "chmod", "replace">>

\* The steps of the write taken so far: what follows the two sources.
WriteSteps == SelectSeq(kube.steps, LAMBDA s : s \in Range(WRITE_STEPS))

Attempted(component) ==
    \E i \in DOMAIN installer.done : installer.done[i].component = component

Installed(component) == component \in installer.installed

InstallSucceeded == installer.pc = "exited" /\ installer.exit = "0"

\* Argo Workflows is touched only once ArgoCD is not to be touched again.
ArgocdBeforeWorkflows ==
    \A i, j \in DOMAIN installer.done :
        (/\ installer.done[i].component = "workflows"
         /\ installer.done[j].component = "argocd") => j < i

\* C23: with --argocd-only ArgoCD is installed and Argo Workflows is not,
\* with --workflows-only Argo Workflows is installed and ArgoCD is not, with
\* neither ArgoCD is installed first and Argo Workflows after it, and not
\* at all when the installation of ArgoCD failed.
C23_InstallSelection ==
    /\ installer.args.argocd_only =>
          /\ ~Attempted("workflows")
          /\ InstallSucceeded => Installed("argocd")
    /\ installer.args.workflows_only =>
          /\ ~Attempted("argocd")
          /\ InstallSucceeded => Installed("workflows")
    /\ install_both(installer.args) =>
          /\ ArgocdBeforeWorkflows
          /\ Attempted("workflows") => Installed("argocd")
          /\ InstallSucceeded => Installed("argocd") /\ Installed("workflows")

(***************************************************************************)
(* C24: concurrent read-modify-write of policy.csv                         *)
(***************************************************************************)
HasLine(text, line) == \E k \in DOMAIN Split(text, NL) : Split(text, NL)[k] = line

LineOf(i) ==
    PolicyLine(editors.invocation[i].subject, editors.invocation[i].role)

Wrote(i) == \E k \in DOMAIN editors.writes : editors.writes[k].by = i

\* C24: nothing stands between a read and the write computed from it: a
\* patch that returns has put in the ConfigMap the policy computed from
\* this invocation's own read, whatever was written since that read (no
\* version check, no retry), so that the last writer's policy is the final
\* one and holds the first writer's line only if the last writer read it.
C24_LastWriterWins ==
    /\ \A k \in DOMAIN editors.writes :
          LET w == editors.writes[k]
              me == editors.invocation[w.by]
          IN  /\ w.after.policy =
                    upsert_policy(me.read, me.subject, me.role)
              /\ w.after.version = w.before.version + 1
    /\ \A i \in Invocations :
          /\ editors.invocation[i].pc = "returned" <=> Wrote(i)
          /\ \A k, l \in DOMAIN editors.writes :
                (editors.writes[k].by = i /\ editors.writes[l].by = i) => k = l
    /\ editors.writes # <<>> =>
          editors.config_map = editors.writes[Len(editors.writes)].after

\* The lost update: both invocations read before either wrote, both
\* patches returned, and the final policy lacks the first writer's line.
C24_Witness ==
    /\ Len(editors.writes) = 2
    /\ \A i \in Invocations :
          /\ editors.invocation[i].pc = "returned"
          /\ editors.invocation[i].read_version = 0
    /\ ~HasLine(editors.config_map.policy, LineOf(editors.writes[1].by))
    /\ HasLine(editors.writes[1].after.policy, LineOf(editors.writes[1].by))
    /\ HasLine(editors.config_map.policy, LineOf(editors.writes[2].by))

(***************************************************************************)
(* C25: the provisioning step of create_instance                           *)
(***************************************************************************)
PROVISION_STEPS == {"apply", "wait", "check"}

\* _create_provision_workflows raised.
ProvisionRaised ==
    /\ ci_pc = St("raised")
    /\ ci_steps[Len(ci_steps)].step \in PROVISION_STEPS

\* The step went on to its last loop, the deletion of the workflows.
Deleting == ci_pc = St("cleanup") \/ Entered(St("cleanup"))

\* The waits are over: the step raised, or it went on to the deletion.
ProvisionOver == ProvisionRaised \/ Deleting

AllApplied == Entered(WfSt("wait", "mysql"))

SomeWaitFailed == \E i \in DOMAIN wait_results : ~wait_results[i]

ClusterErrorRaised == ProvisionRaised /\ ci_exc = "KubernetesError"

\* The parts of C25 that do not depend on how the step can raise: the
\* three applies precede the three waits, every workflow is waited on, the
\* deletion is run exactly when all three waits returned true, and a
\* failing step leaves in the namespace the workflows it applied.
AppliedWaitedDeleted ==
    /\ IsPrefix(ci_steps, CREATE_STEPS)
    /\ Entered(WfSt("wait", "mysql")) =>
          \A w \in WorkflowNames : provision_wf[w] \/ Entered(St("cleanup"))
    /\ Entered(St("check")) => Len(wait_results) = 3
    /\ Deleting <=>
          (Entered(St("check")) /\ ~ProvisionRaised /\ ~SomeWaitFailed)
    /\ ProvisionRaised =>
          /\ ~Deleting
          /\ \A w \in ci_created \cap WorkflowNames : provision_wf[w]

C26_SubjectsSanitized ==
    \A i \in DOMAIN accounts.subjects :
        LET used == accounts.subjects[i]
        IN  used.subject = sanitize_username(used.username).value

(***************************************************************************)
(* C30: a second creation and the first user's account                     *)
(***************************************************************************)
\* The two calls made are creations for distinct usernames that returned.
TwoCreations ==
    /\ Len(accounts.calls) = 2
    /\ \A i \in 1..2 :
          /\ accounts.calls[i].command = "create"
          /\ accounts.calls[i].outcome = "returned"
    /\ accounts.calls[1].username # accounts.calls[2].username

FirstName == sanitize_username(accounts.calls[1].username).value

EntriesOf(entries, name) == {e \in entries : e.name = name}

PolicyHasLine(text, line) ==
    \E k \in DOMAIN Split(text, NL) : Split(text, NL)[k] = line

\* C30: after create_argo_user(u, ...) and then create_argo_user(u', ...)
\* for a different username, the accounts.* entries created for u are as
\* the first call left them and both policies still hold u's line.
C30_OtherAccountUntouched ==
    TwoCreations =>
       /\ EntriesOf(accounts.sso, FirstName) =
             EntriesOf(accounts.after[1].sso, FirstName)
       /\ EntriesOf(accounts.secret, FirstName) =
             EntriesOf(accounts.after[1].secret, FirstName)
       /\ EntriesOf(accounts.cm, FirstName) =
             EntriesOf(accounts.after[1].cm, FirstName)
       /\ \A c \in RBAC_CONFIGMAPS :
             PolicyHasLine(accounts.policy[c],
                           PolicyLine(FirstName, accounts.calls[1].role))

(***************************************************************************)
(* C27: the token wait                                                     *)
(***************************************************************************)
TokenWaitOver == token_wait.pc \in {"returned", "raised"}

TokenWaitBounded ==
    /\ token_wait.reads <= TOKEN_WAIT_TIMEOUT
    /\ token_wait.clock = token_wait.sleeps * TOKEN_WAIT_INTERVAL
    /\ token_wait.pc = "read" => token_wait.sleeps = token_wait.reads
    /\ token_wait.pc # "read" =>
          token_wait.sleeps \in {token_wait.reads - 1, token_wait.reads}
    /\ token_wait.pc = "returned" =>
          /\ token_wait.found_at = token_wait.reads
          /\ token_wait.token \in Tokens
          /\ token_wait.secret.token = <<B64(token_wait.token)>>
    /\ token_wait.pc # "returned" =>
          /\ token_wait.found_at = 0
          /\ token_wait.with_token = 0
    /\ token_wait.pc = "returned" => token_wait.with_token = 1
    /\ token_wait.pc = "raised" =>
          /\ token_wait.reads = TOKEN_WAIT_TIMEOUT
          /\ token_wait.exc = "KubernetesError"

\* C27: the wait reads the secret at most TOKEN_WAIT_TIMEOUT times with a
\* sleep of TOKEN_WAIT_INTERVAL between two reads, returns the decoded
\* token at the first read that finds one, goes on after a failed read,
\* raises KubernetesError after the last read without a token, and always
\* ends.
C27_TokenWaitTerminates == []TokenWaitBounded /\ <>TokenWaitOver

\* The token appeared late: the wait returned it at its last read.
C27_Witness ==
    /\ token_wait.pc = "returned"
    /\ token_wait.reads = TOKEN_WAIT_TIMEOUT
    /\ token_wait.token = <<"t", "2">>

(***************************************************************************)
(* C28: the options of instance create                                     *)
(***************************************************************************)
\* C28: create_instance receives, for each of its parameters, the value
\* the command line gave for the option of the same name (the option's
\* default when it was not given).
C28_OptionsPassedByName ==
    (Called("instance_create.main") /\ fn_result.state = "returned") =>
       \A o \in Range(CREATE_OPTIONS) :
           fn_result.value[o] = parse_args(fn_call.args[1])[o]

(***************************************************************************)
(* C29: the image reference an override line ends up as                    *)
(***************************************************************************)
\* The image reference of an image line: what follows "image: ".
ImageOfLine(line) == SubSeq(line, Len(ImageKey) + 2, Len(line))

\* C29: for every override line applied, the reference stored in
\* config.yml under the service's key is the line's spec, character for
\* character, and so is the reference of every env line the override
\* rewrote.
C29_OverrideStoredExactly ==
    \A i \in DOMAIN overrides.applied :
        LET o == overrides.applied[i]
        IN  /\ o.stored = o.image_spec
            /\ overrides.applied[i].key = SERVICE_TO_CONFIG_KEY[o.service]
            /\ \A k \in DOMAIN o.after :
                  o.after[k] # o.before[k] =>
                     ImageOfLine(o.after[k]) = o.image_spec

====
